---- MODULE Spec2Model ----
(***************************************************************************)
(* Model of the query-to-metric mapping engine of the openGauss exporter:  *)
(* the type coercion helpers (DbToFloat64, DbToString), the label decoder  *)
(* (decode, DecodeByte), the row processor (procRows, newMetric) and the   *)
(* statement loop of getMetric.                                            *)
(*                                                                         *)
(* Text is modelled as a sequence of byte values (0..255), so that UTF-8   *)
(* well-formedness, float parsing and transcoding are computed on bytes.   *)
(* Column and label names are TLA+ strings: the program only compares them.*)
(***************************************************************************)
EXTENDS Integers, Sequences, FiniteSets, TLC

VARIABLES
    call,        \* the helper invocation under test: operation and arguments
    ret,         \* its result, or NoRet before the call returns
    qi,          \* getMetric: the queryInstance argument
    pc,          \* getMetric: position in the function body
    qn,          \* getMetric: index of the statement variant the loop is at
    columnNames, \* getMetric: local columnNames
    list,        \* getMetric: local list, the rows collected so far
    rn,          \* getMetric: index of the next row of list to process
    metrics,     \* getMetric: local metrics
    dblog,       \* the database side: what became of each statement variant
    columnIdx,   \* getMetric: local columnIdx, the name-to-index lookup map
    ctx,         \* getMetric: the ctx argument, and when it was cancelled
    upd,         \* the Update invocation of a collector that calls getMetric
    env,         \* package config: MonitDB, MetricMap, DBMap and the tables
    procs        \* the Update invocations in flight while the exporter serves

vars == <<call, ret, qi, pc, qn, columnNames, list, rn, metrics, dblog,
          columnIdx, ctx, upd, env, procs>>

\* the state outside getMetric and the helper calls
outerVars == <<upd, env, procs>>

----------------------------------------------------------------------------
(* Bounds *)

\* longest text value handed to the coercion helpers
MaxStrLen == 3

\* most statement variants in one query definition
MaxQueries == 2

\* most rows getMetric collects in one call
MaxRows == 2

\* the number of Update invocations in progress at the same time
MaxScrapes == 2

\* the number of times the table is initialised again while scrapes run
MaxReloads == 1

\* the number of entries of a configuration directory
MaxFiles == 2

\* the number of signals the process receives
MaxSignals == 3

\* the bytes text values are built from: '.', '1', 'N', 'a', 0x80, 0xD0
Alphabet == {46, 49, 78, 97, 128, 208}

----------------------------------------------------------------------------
(* Sequence helpers *)

RECURSIVE SeqsUpTo(_, _)
SeqsUpTo(S, n) ==
    IF n = 0 THEN {<<>>}
    ELSE LET shorter == SeqsUpTo(S, n - 1)
         IN shorter \cup {Append(s, x) : s \in {t \in shorter : Len(t) = n - 1}, x \in S}

Range(s) == {s[i] : i \in 1..Len(s)}

RECURSIVE Pow10(_)
Pow10(n) == IF n <= 0 THEN 1 ELSE 10 * Pow10(n - 1)

----------------------------------------------------------------------------
(* float64 values: a number m * 10^e in normal form, or NaN, or +-Inf *)

RECURSIVE Norm(_, _)
Norm(m, e) ==
    IF m = 0 THEN [cls |-> "num", m |-> 0, e |-> 0]
    ELSE IF m % 10 = 0 THEN Norm(m \div 10, e + 1)
    ELSE [cls |-> "num", m |-> m, e |-> e]

NaN == [cls |-> "nan", m |-> 0, e |-> 0]
Inf(sign) == [cls |-> "inf", m |-> sign, e |-> 0]

----------------------------------------------------------------------------
(* Database values, as database/sql hands them over in an interface{} *)

ZeroValue ==
    [k |-> "nil", i |-> 0, f |-> NaN, sec |-> 0, nsec |-> 0, s |-> <<>>, b |-> FALSE]

VInt(i)          == [ZeroValue EXCEPT !.k = "int64", !.i = i]
VFloat(f)        == [ZeroValue EXCEPT !.k = "float64", !.f = f]
VTime(sec, nsec) == [ZeroValue EXCEPT !.k = "time", !.sec = sec, !.nsec = nsec]
VBytes(s)        == [ZeroValue EXCEPT !.k = "bytes", !.s = s]
VString(s)       == [ZeroValue EXCEPT !.k = "string", !.s = s]
VBool(b)         == [ZeroValue EXCEPT !.k = "bool", !.b = b]
VNil             == ZeroValue
\* a value of a dynamic type none of the type switches lists (int32, a map, ...)
VOther           == [ZeroValue EXCEPT !.k = "other"]

----------------------------------------------------------------------------
(* Text: ASCII helpers *)

IsDigit(c) == c >= 48 /\ c <= 57

\* the byte of an ASCII letter, lower-cased
ToLower(c) == IF c >= 65 /\ c <= 90 THEN c + 32 ELSE c

LowerSeq(s) == [i \in 1..Len(s) |-> ToLower(s[i])]

RECURSIVE Digits(_)
\* decimal digits of a natural number
Digits(n) == IF n < 10 THEN <<48 + n>> ELSE Append(Digits(n \div 10), 48 + (n % 10))

\* fmt.Sprintf("%v", int64)
Itoa(i) == IF i < 0 THEN <<45>> \o Digits(0 - i) ELSE Digits(i)

RECURSIVE PadLeft(_, _)
\* zero padding to a width, as %03d does
PadLeft(s, w) == IF Len(s) >= w THEN s ELSE PadLeft(<<48>> \o s, w)

RECURSIVE TrimZeros(_)
TrimZeros(s) ==
    IF s # <<>> /\ s[Len(s)] = 48 THEN TrimZeros(SubSeq(s, 1, Len(s) - 1)) ELSE s

TextNaN       == <<78, 97, 78>>
TextTrue      == <<116, 114, 117, 101>>
TextFalse     == <<102, 97, 108, 115, 101>>
TextInf       == <<105, 110, 102>>
TextInfinity  == <<105, 110, 102, 105, 110, 105, 116, 121>>
TextPlusInf   == <<43, 73, 110, 102>>
TextMinusInf  == <<45, 73, 110, 102>>
\* "1970-01-01T00:00:"
TextEpochMinute ==
    <<49, 57, 55, 48, 45, 48, 49, 45, 48, 49, 84, 48, 48, 58, 48, 48, 58>>

----------------------------------------------------------------------------
(* unicode/utf8 *)

\* number of bytes of the encoding a lead byte announces; 0 when the byte
\* cannot start an encoding
LeadSize(c) ==
    IF c < 128 THEN 1
    ELSE IF c >= 194 /\ c <= 223 THEN 2
    ELSE IF c >= 224 /\ c <= 239 THEN 3
    ELSE IF c >= 240 /\ c <= 244 THEN 4
    ELSE 0

\* the range the second byte of an encoding must lie in
SecondLo(c) == IF c = 224 THEN 160 ELSE IF c = 240 THEN 144 ELSE 128
SecondHi(c) == IF c = 237 THEN 159 ELSE IF c = 244 THEN 143 ELSE 191

IsCont(c) == c >= 128 /\ c <= 191

\* how many bytes starting at s[i] are a well-formed prefix of one encoding
\* (the "maximal subpart"); equals LeadSize when the encoding is complete
GoodPrefix(s, i) ==
    LET c == s[i]
        n == LeadSize(c)
    IN  IF n <= 1 THEN n
        ELSE IF i + 1 > Len(s) \/ s[i + 1] < SecondLo(c) \/ s[i + 1] > SecondHi(c) THEN 1
        ELSE IF n = 2 THEN 2
        ELSE IF i + 2 > Len(s) \/ ~IsCont(s[i + 2]) THEN 2
        ELSE IF n = 3 THEN 3
        ELSE IF i + 3 > Len(s) \/ ~IsCont(s[i + 3]) THEN 3
        ELSE 4

\* s[i] starts a complete well-formed encoding
RuneOK(s, i) == LeadSize(s[i]) > 0 /\ GoodPrefix(s, i) = LeadSize(s[i])

RECURSIVE ValidFrom(_, _)
ValidFrom(s, i) ==
    IF i > Len(s) THEN TRUE
    ELSE RuneOK(s, i) /\ ValidFrom(s, i + LeadSize(s[i]))

\* utf8.ValidString
ValidString(s) == ValidFrom(s, 1)

\* U+FFFD in UTF-8
RuneError == <<239, 191, 189>>

----------------------------------------------------------------------------
(* strconv.ParseFloat(s, 64), for text over bytes that are digits, '.',   *)
(* a sign, or letters: decimal mantissa without exponent, "nan", "inf".   *)
(* The Alphabet holds none of 'e', 'E', 'x', 'p', '_', so exponents, hex  *)
(* floats and digit separators do not occur in the inputs.                *)

ParseFail == [ok |-> FALSE, f |-> NaN]

HasSign(s) == s # <<>> /\ s[1] \in {43, 45}

Unsigned(s) == IF HasSign(s) THEN Tail(s) ELSE s

SignOf(s) == IF s # <<>> /\ s[1] = 45 THEN 0 - 1 ELSE 1

RECURSIVE DigitsValue(_)
\* the number a sequence of digit bytes and dots denotes with the dots removed
DigitsValue(s) ==
    IF s = <<>> THEN 0
    ELSE IF s[Len(s)] = 46 THEN DigitsValue(SubSeq(s, 1, Len(s) - 1))
    ELSE 10 * DigitsValue(SubSeq(s, 1, Len(s) - 1)) + (s[Len(s)] - 48)

\* digits after the decimal point
FracDigits(s) ==
    IF \E i \in 1..Len(s) : s[i] = 46
    THEN Len(s) - (CHOOSE i \in 1..Len(s) : s[i] = 46)
    ELSE 0

IsMantissa(s) ==
    /\ \A i \in 1..Len(s) : IsDigit(s[i]) \/ s[i] = 46
    /\ Cardinality({i \in 1..Len(s) : s[i] = 46}) <= 1
    /\ \E i \in 1..Len(s) : IsDigit(s[i])

ParseFloat(s) ==
    IF LowerSeq(s) = LowerSeq(TextNaN) THEN [ok |-> TRUE, f |-> NaN]
    ELSE IF LowerSeq(Unsigned(s)) \in {TextInf, TextInfinity}
         THEN [ok |-> TRUE, f |-> Inf(SignOf(s))]
    ELSE IF IsMantissa(Unsigned(s))
         THEN [ok |-> TRUE,
               f |-> Norm(SignOf(s) * DigitsValue(Unsigned(s)), 0 - FracDigits(Unsigned(s)))]
    ELSE ParseFail

----------------------------------------------------------------------------
(* collector/utils: type coercion *)

\* DbToFloat64 with NULL coerced to 0
DbToFloat64NilIsZero(t) ==
    CASE t.k = "int64"   -> [f |-> Norm(t.i, 0), ok |-> TRUE]
      [] t.k = "float64" -> [f |-> t.f, ok |-> TRUE]
      [] t.k = "time"    -> [f |-> Norm(t.sec, 0), ok |-> TRUE]
      [] t.k \in {"bytes", "string"} ->
                            IF ParseFloat(t.s).ok
                            THEN [f |-> ParseFloat(t.s).f, ok |-> TRUE]
                            ELSE [f |-> NaN, ok |-> FALSE]
      [] t.k = "bool"    -> IF t.b THEN [f |-> Norm(1, 0), ok |-> TRUE]
                                   ELSE [f |-> Norm(0, 0), ok |-> TRUE]
      [] t.k = "nil"     -> [f |-> Norm(0, 0), ok |-> TRUE]
      [] OTHER           -> [f |-> NaN, ok |-> FALSE]

\* DbToFloat64 with NULL falling into the default case
DbToFloat64NoNil(t) ==
    CASE t.k = "int64"   -> [f |-> Norm(t.i, 0), ok |-> TRUE]
      [] t.k = "float64" -> [f |-> t.f, ok |-> TRUE]
      [] t.k = "time"    -> [f |-> Norm(t.sec, 0), ok |-> TRUE]
      [] t.k \in {"bytes", "string"} ->
                            IF ParseFloat(t.s).ok
                            THEN [f |-> ParseFloat(t.s).f, ok |-> TRUE]
                            ELSE [f |-> NaN, ok |-> FALSE]
      [] t.k = "bool"    -> IF t.b THEN [f |-> Norm(1, 0), ok |-> TRUE]
                                   ELSE [f |-> Norm(0, 0), ok |-> TRUE]
      [] OTHER           -> [f |-> NaN, ok |-> FALSE]

\* DbToFloat64: (float64, ok)
DbToFloat64(t) ==
    CASE t.k = "int64"   -> [f |-> Norm(t.i, 0), ok |-> TRUE]
      [] t.k = "float64" -> [f |-> t.f, ok |-> TRUE]
      [] t.k = "time"    -> [f |-> Norm(t.sec, 0), ok |-> TRUE]
      [] t.k = "bytes"   -> IF ParseFloat(t.s).ok
                            THEN [f |-> ParseFloat(t.s).f, ok |-> TRUE]
                            ELSE [f |-> NaN, ok |-> FALSE]
      [] t.k = "string"  -> IF ParseFloat(t.s).ok
                            THEN [f |-> ParseFloat(t.s).f, ok |-> TRUE]
                            ELSE [f |-> NaN, ok |-> FALSE]
      [] t.k = "bool"    -> IF t.b THEN [f |-> Norm(1, 0), ok |-> TRUE]
                                   ELSE [f |-> Norm(0, 0), ok |-> TRUE]
      [] t.k = "nil"     -> [f |-> NaN, ok |-> TRUE]
      [] OTHER           -> [f |-> NaN, ok |-> FALSE]

\* the decimal exponent of the leading digit of m * 10^e
LeadExp(f) == Len(Digits(IF f.m < 0 THEN 0 - f.m ELSE f.m)) + f.e - 1

\* fmt.Sprintf("%v", float64): %g with the shortest digits, exponent form when
\* the leading digit's exponent is below -4 or at least 6
FormatFloat(f) ==
    LET neg  == f.m < 0
        abs  == IF neg THEN 0 - f.m ELSE f.m
        sign == IF neg THEN <<45>> ELSE <<>>
        ds   == Digits(abs)
        x    == LeadExp(f)
    IN  CASE f.cls = "nan" -> TextNaN
          [] f.cls = "inf" -> IF f.m < 0 THEN TextMinusInf ELSE TextPlusInf
          [] OTHER ->
             IF abs = 0 THEN <<48>>
             ELSE IF x < 0 - 4 \/ x >= 6
                  THEN sign \o <<ds[1]>>
                       \o (IF Len(ds) > 1 THEN <<46>> \o Tail(ds) ELSE <<>>)
                       \o <<101>> \o (IF x < 0 THEN <<45>> ELSE <<43>>)
                       \o PadLeft(Digits(IF x < 0 THEN 0 - x ELSE x), 2)
             ELSE IF f.e >= 0 THEN sign \o Digits(abs * Pow10(f.e))
             ELSE sign \o Digits(abs \div Pow10(0 - f.e)) \o <<46>>
                       \o PadLeft(Digits(abs % Pow10(0 - f.e)), 0 - f.e)

\* time.Time.Format(time.RFC3339Nano) of an instant in the first minute of
\* the epoch, zone offset 0
FormatRFC3339Nano(sec, nsec) ==
    TextEpochMinute \o PadLeft(Digits(sec), 2)
        \o (IF nsec = 0 THEN <<>> ELSE <<46>> \o TrimZeros(PadLeft(Digits(nsec), 9)))
        \o <<90>>

\* DbToString reporting a NULL as not ok
DbToStringNilNotOk(t, time2string) ==
    CASE t.k = "int64"   -> [s |-> Itoa(t.i), ok |-> TRUE]
      [] t.k = "float64" -> [s |-> FormatFloat(t.f), ok |-> TRUE]
      [] t.k = "time"    -> IF time2string
                            THEN [s |-> FormatRFC3339Nano(t.sec, t.nsec), ok |-> TRUE]
                            ELSE [s |-> Itoa(t.sec) \o PadLeft(Digits(t.nsec \div 1000000), 3),
                                  ok |-> TRUE]
      [] t.k \in {"bytes", "string"} -> [s |-> t.s, ok |-> TRUE]
      [] t.k = "bool"    -> IF t.b THEN [s |-> TextTrue, ok |-> TRUE]
                                   ELSE [s |-> TextFalse, ok |-> TRUE]
      [] OTHER           -> [s |-> <<>>, ok |-> FALSE]

\* DbToString: (string, ok)
DbToString(t, time2string) ==
    CASE t.k = "int64"   -> [s |-> Itoa(t.i), ok |-> TRUE]
      [] t.k = "float64" -> [s |-> FormatFloat(t.f), ok |-> TRUE]
      [] t.k = "time"    -> IF time2string
                            THEN [s |-> FormatRFC3339Nano(t.sec, t.nsec), ok |-> TRUE]
                            ELSE [s |-> Itoa(t.sec) \o PadLeft(Digits(t.nsec \div 1000000), 3),
                                  ok |-> TRUE]
      [] t.k = "nil"     -> [s |-> <<>>, ok |-> TRUE]
      [] t.k = "bytes"   -> [s |-> t.s, ok |-> TRUE]
      [] t.k = "string"  -> [s |-> t.s, ok |-> TRUE]
      [] t.k = "bool"    -> IF t.b THEN [s |-> TextTrue, ok |-> TRUE]
                                   ELSE [s |-> TextFalse, ok |-> TRUE]
      [] OTHER           -> [s |-> <<>>, ok |-> FALSE]

----------------------------------------------------------------------------
(* collector/utils: character sets *)

UTF8          == <<85, 84, 70, 56>>
UTF8Underline == <<85, 84, 70, 45, 56>>
GBK           == <<71, 66, 75>>
GB18030       == <<71, 66, 49, 56, 48, 51, 48>>
\* a name no encoding index lists: "BOGUS"
BogusCharset  == <<66, 79, 71, 85, 83>>

ToUpper(c) == IF c >= 97 /\ c <= 122 THEN c - 32 ELSE c

UpperSeq(s) == [i \in 1..Len(s) |-> ToUpper(s[i])]

CharSetMap == [n \in {UTF8, GBK, GB18030} |->
                  IF n = UTF8 THEN UTF8Underline ELSE GBK]

GetMapCharset(s) ==
    LET u == UpperSeq(s)
    IN  IF \E n \in DOMAIN CharSetMap : n = u
        THEN CharSetMap[CHOOSE n \in DOMAIN CharSetMap : n = u]
        ELSE s

\* ianaindex.MIB.Encoding: the name as given against the MIB names, then
\* lower-cased against the IANA names and aliases
MIBEncoding(name) ==
    IF name = UTF8 \/ LowerSeq(name) = LowerSeq(UTF8Underline) THEN "utf8"
    ELSE IF LowerSeq(name) = LowerSeq(GBK) THEN "gbk"
    ELSE "invalid"

RECURSIVE UTF8Transform(_, _)
\* the UTF-8 decoder of golang.org/x/text at end of input, from s[i] on: a
\* well-formed encoding is copied, a maximal ill-formed subpart becomes U+FFFD
UTF8Transform(s, i) ==
    IF i > Len(s) THEN <<>>
    ELSE IF RuneOK(s, i)
         THEN SubSeq(s, i, i + LeadSize(s[i]) - 1) \o UTF8Transform(s, i + LeadSize(s[i]))
    ELSE RuneError
         \o UTF8Transform(s, i + (IF GoodPrefix(s, i) = 0 THEN 1 ELSE GoodPrefix(s, i)))

\* the GBK decoder on ASCII text, which it copies; the double-byte tables are
\* not modelled and no call hands them a byte above 127
GBKTransformASCII(s) == s

\* DecodeByte: (bytes, err)
DecodeByte(b, charset) ==
    LET enc == MIBEncoding(GetMapCharset(charset))
    IN  IF enc = "invalid" THEN [b |-> b, err |-> TRUE]
        ELSE IF enc = "utf8" THEN [b |-> UTF8Transform(b, 1), err |-> FALSE]
        ELSE [b |-> GBKTransformASCII(b), err |-> FALSE]

----------------------------------------------------------------------------
(* collector/config: query definitions *)

\* the column names result sets and definitions are built from
ColNames == {"datname", "numbackends", "xact_commit"}

\* the usage value the row processor never emits as a plain sample
MappedMETRIC == "MappedMETRIC"

\* strings.EqualFold(usage, MappedMETRIC) over the usages of the model
EqualFoldMapped(usage) == usage \in {"MappedMETRIC", "mappedmetric", "MAPPEDMETRIC"}

\* the monitored target, "address:port", as the collectors format it
ServerLabel == "127.0.0.1:5432"

\* an entry of QueryInstance.Columns; Declared is FALSE for a name the
\* definition has no entry for
Column(usage, discard, histogram, checkUTF8, type) ==
    [Declared |-> TRUE, Usage |-> usage, DisCard |-> discard, Histogram |-> histogram,
     CheckUTF8 |-> checkUTF8, PrometheusType |-> type]

NoColumn ==
    [Declared |-> FALSE, Usage |-> "", DisCard |-> FALSE, Histogram |-> FALSE,
     CheckUTF8 |-> FALSE, PrometheusType |-> "untyped"]

\* the result of GetColumn when the definition has no such column
NilColumn ==
    [Nil |-> TRUE, Usage |-> "", DisCard |-> FALSE, Histogram |-> FALSE,
     CheckUTF8 |-> FALSE, PrometheusType |-> "untyped",
     PrometheusDesc |-> [fqName |-> <<"", "">>, variableLabels |-> <<>>, server |-> ""]]

\* QueryInstance.GetColumn: the descriptor declared for exactly this column
\* name, its sample descriptor carrying the definition's label names and the
\* server identity as a constant label
GetColumn(queryInstance, colName, server) ==
    IF colName \in DOMAIN queryInstance.Columns /\ queryInstance.Columns[colName].Declared
    THEN LET c == queryInstance.Columns[colName]
         IN  [Nil |-> FALSE, Usage |-> c.Usage, DisCard |-> c.DisCard,
              Histogram |-> c.Histogram, CheckUTF8 |-> c.CheckUTF8,
              PrometheusType |-> c.PrometheusType,
              PrometheusDesc |-> [fqName |-> <<queryInstance.Name, colName>>,
                                  variableLabels |-> queryInstance.LabelNames,
                                  server |-> server]]
    ELSE NilColumn

----------------------------------------------------------------------------
(* collector/opengauss: label decoding and sample construction *)

\* decode asking for the database name before it looks at the text
decodeDbNameFirst(queryInstance, data, label, dbName) ==
    LET v   == DbToString(data, FALSE).s
        col == GetColumn(queryInstance, label, ServerLabel)
        dec == DecodeByte(v, UTF8)
    IN  IF col.Nil THEN [s |-> v, err |-> FALSE]
        ELSE IF ~col.CheckUTF8 THEN [s |-> v, err |-> FALSE]
        ELSE IF dbName = <<>> THEN [s |-> <<>>, err |-> FALSE]
        ELSE IF ValidString(v) THEN [s |-> v, err |-> FALSE]
        ELSE IF dec.err THEN [s |-> <<>>, err |-> FALSE]
        ELSE [s |-> dec.b, err |-> FALSE]

\* decode handing back the text it was given after a successful transcoding
decodeReturnsInput(queryInstance, data, label, dbName) ==
    LET v   == DbToString(data, FALSE).s
        col == GetColumn(queryInstance, label, ServerLabel)
        dec == DecodeByte(v, UTF8)
    IN  IF col.Nil THEN [s |-> v, err |-> FALSE]
        ELSE IF ~col.CheckUTF8 THEN [s |-> v, err |-> FALSE]
        ELSE IF ValidString(v) THEN [s |-> v, err |-> FALSE]
        ELSE IF dbName = <<>> THEN [s |-> <<>>, err |-> FALSE]
        ELSE IF dec.err THEN [s |-> <<>>, err |-> FALSE]
        ELSE [s |-> v, err |-> FALSE]

\* decode without the branch for a missing database name
decodeNoDbNameCheck(queryInstance, data, label, dbName) ==
    LET v   == DbToString(data, FALSE).s
        col == GetColumn(queryInstance, label, ServerLabel)
        dec == DecodeByte(v, UTF8)
    IN  IF col.Nil THEN [s |-> v, err |-> FALSE]
        ELSE IF ~col.CheckUTF8 THEN [s |-> v, err |-> FALSE]
        ELSE IF ValidString(v) THEN [s |-> v, err |-> FALSE]
        ELSE IF dec.err THEN [s |-> <<>>, err |-> FALSE]
        ELSE [s |-> dec.b, err |-> FALSE]

\* decode: (string, error); the error is always nil
decode(queryInstance, data, label, dbName) ==
    LET v   == DbToString(data, FALSE).s
        col == GetColumn(queryInstance, label, ServerLabel)
        dec == DecodeByte(v, UTF8)
    IN  IF col.Nil THEN [s |-> v, err |-> FALSE]
        ELSE IF ~col.CheckUTF8 THEN [s |-> v, err |-> FALSE]
        ELSE IF ValidString(v) THEN [s |-> v, err |-> FALSE]
        ELSE IF dbName = <<>> THEN [s |-> <<>>, err |-> FALSE]
        ELSE IF dec.err THEN [s |-> <<>>, err |-> FALSE]
        ELSE [s |-> dec.b, err |-> FALSE]

NoMetric ==
    [Nil |-> TRUE, desc |-> NilColumn.PrometheusDesc, valueType |-> "untyped",
     value |-> NaN, labels |-> <<>>]

\* prometheus.NewConstMetric fails, and MustNewConstMetric panics, when the
\* label values are not as many as the descriptor's variable labels or one of
\* them is not valid UTF-8
ConstMetricFails(desc, labels) ==
    \/ Len(labels) # Len(desc.variableLabels)
    \/ \E i \in 1..Len(labels) : ~ValidString(labels[i])

\* the deferred call doing nothing: the panic goes on
RecoverErrNot(e) == e

\* utils.RecoverErr, deferred by newMetric: a panic becomes the error
\* newMetric returns, no panic leaves err as it is
RecoverErr(e) == IF e = "panic" THEN "recovered" ELSE e

\* newMetric without the test for histogram columns
newMetricNoHistogram(queryInstance, col, columnName, colValue, labels) ==
    LET num == DbToFloat64(colValue)
    IN  IF col.Nil THEN [metric |-> NoMetric, err |-> ""]
        ELSE IF col.DisCard THEN [metric |-> NoMetric, err |-> ""]
        ELSE IF EqualFoldMapped(col.Usage) THEN [metric |-> NoMetric, err |-> ""]
        ELSE IF ~num.ok THEN [metric |-> NoMetric, err |-> "parse"]
        ELSE IF ConstMetricFails(col.PrometheusDesc, labels)
             THEN [metric |-> NoMetric, err |-> "recovered"]
        ELSE [metric |-> [Nil |-> FALSE, desc |-> col.PrometheusDesc,
                          valueType |-> col.PrometheusType, value |-> num.f,
                          labels |-> labels],
              err |-> ""]

\* newMetric: (metric, err); err is "" for nil, "parse" for the error of an
\* uncoercible value, "recovered" for a panic RecoverErr turned into an
\* error, "panic" for a panic that leaves newMetric
newMetric(queryInstance, col, columnName, colValue, labels) ==
    LET num == DbToFloat64(colValue)
    IN  IF col.Nil THEN [metric |-> NoMetric, err |-> ""]
        ELSE IF col.DisCard THEN [metric |-> NoMetric, err |-> ""]
        ELSE IF col.Histogram THEN [metric |-> NoMetric, err |-> ""]
        ELSE IF EqualFoldMapped(col.Usage) THEN [metric |-> NoMetric, err |-> ""]
        ELSE IF ~num.ok THEN [metric |-> NoMetric, err |-> "parse"]
        ELSE IF ConstMetricFails(col.PrometheusDesc, labels)
             THEN [metric |-> NoMetric, err |-> RecoverErr("panic")]
        ELSE [metric |-> [Nil |-> FALSE, desc |-> col.PrometheusDesc,
                          valueType |-> col.PrometheusType, value |-> num.f,
                          labels |-> labels],
              err |-> RecoverErr("")]

\* a lookup that finds nothing
LookupZero(colIdx, name) == 0

\* a map lookup colIdx[name]: the zero value for a missing key
Lookup(colIdx, name) ==
    IF name \in DOMAIN colIdx THEN colIdx[name] ELSE 0

\* the lookup map getMetric builds: a later duplicate of a name wins
MakeColumnIdx(names) ==
    [n \in Range(names) |->
        (CHOOSE i \in 1..Len(names) :
            names[i] = n /\ \A j \in 1..Len(names) : names[j] = n => j <= i) - 1]

\* columnData[i] with Go's zero-based index panics out of range
InRange(columnData, i) == i >= 0 /\ i < Len(columnData)

At(columnData, i) == columnData[i + 1]


\* the result of procRows, or of its panic; cols keeps what newMetric
\* returned for each column, in column order
NoOut == [panic |-> FALSE, metrics |-> <<>>, errs |-> <<>>, labels |-> <<>>, cols |-> <<>>]

RECURSIVE CollectUntilError(_, _)
\* the column loop leaving at the first error instead of continuing
CollectUntilError(cols, n) ==
    IF n = 0 THEN <<>>
    ELSE IF \E k \in 1..n : cols[k].err # "" THEN CollectUntilError(cols, n - 1)
    ELSE IF ~cols[n].metric.Nil THEN Append(CollectUntilError(cols, n - 1), cols[n].metric)
    ELSE CollectUntilError(cols, n - 1)

RECURSIVE CollectMetrics(_, _)
\* the metrics appended by the column loop up to column n
CollectMetrics(cols, n) ==
    IF n = 0 THEN <<>>
    ELSE IF cols[n].err = "" /\ ~cols[n].metric.Nil
         THEN Append(CollectMetrics(cols, n - 1), cols[n].metric)
    ELSE CollectMetrics(cols, n - 1)

RECURSIVE CollectErrors(_, _, _)
\* the errors appended to nonfatalErrors up to column n
CollectErrors(cols, names, n) ==
    IF n = 0 THEN <<>>
    ELSE IF cols[n].err # ""
         THEN Append(CollectErrors(cols, names, n - 1),
                     [kind |-> cols[n].err, column |-> names[n], index |-> n])
    ELSE CollectErrors(cols, names, n - 1)

\* procRows: (metrics, nonfatalErrors), or a panic: on an index out of range,
\* or one that newMetric let through
procRows(queryInstance, names, colIdx, columnData) ==
    LET dbNameLabel == queryInstance.DBNameLabel
        dbIdx  == Lookup(colIdx, dbNameLabel)
        dbName == IF dbNameLabel # "" THEN DbToString(At(columnData, dbIdx), TRUE).s
                  ELSE <<>>
        labelNames == queryInstance.LabelNames
        labels == [i \in 1..Len(labelNames) |->
                      decode(queryInstance, At(columnData, Lookup(colIdx, labelNames[i])),
                             labelNames[i], dbName).s]
        cols   == [i \in 1..Len(names) |->
                      newMetric(queryInstance, GetColumn(queryInstance, names[i], ServerLabel),
                                names[i], columnData[i], labels)]
    IN  IF \/ dbNameLabel # "" /\ ~InRange(columnData, dbIdx)
           \/ \E i \in 1..Len(labelNames) :
                 ~InRange(columnData, Lookup(colIdx, labelNames[i]))
           \/ Len(names) > Len(columnData)
           \/ \E i \in 1..Len(names) : cols[i].err = "panic"
        THEN [NoOut EXCEPT !.panic = TRUE]
        ELSE [panic |-> FALSE,
              metrics |-> CollectMetrics(cols, Len(names)),
              errs |-> CollectErrors(cols, names, Len(names)),
              labels |-> labels,
              cols |-> cols]

----------------------------------------------------------------------------
(* Inputs of the helper calls *)

Texts == SeqsUpTo(Alphabet, MaxStrLen)

ASCIITexts == {s \in Texts : \A i \in 1..Len(s) : s[i] < 128}

Values ==
    {VInt(i) : i \in {0 - 1, 0, 3, 10}}
    \cup {VFloat(f) : f \in {Norm(0, 0), Norm(15, 0 - 1), Norm(1, 6), Norm(0 - 25, 0 - 6), NaN}}
    \cup {VTime(0, 0), VTime(7, 7000000), VTime(59, 500000000)}
    \cup {VBytes(s) : s \in Texts}
    \cup {VString(s) : s \in Texts}
    \cup {VBool(TRUE), VBool(FALSE), VNil, VOther}

\* descriptors a definition may declare for a label column
LabelColumns ==
    {NoColumn,
     Column("LABEL", TRUE, FALSE, TRUE, "untyped"),
     Column("LABEL", TRUE, FALSE, FALSE, "untyped"),
     Column("GAUGE", FALSE, FALSE, TRUE, "gauge")}

\* descriptors a definition may declare for a value column
ValueColumns ==
    {NoColumn,
     Column("GAUGE", FALSE, FALSE, FALSE, "gauge"),
     Column("DISCARD", TRUE, FALSE, FALSE, "untyped"),
     Column("HISTOGRAM", FALSE, TRUE, FALSE, "untyped"),
     Column("MappedMETRIC", FALSE, FALSE, FALSE, "gauge"),
     Column("mappedmetric", FALSE, FALSE, FALSE, "gauge")}

Definition(queries, labelNames, dbNameLabel, columns) ==
    [Name |-> "pg_database", Queries |-> queries, LabelNames |-> labelNames,
     DBNameLabel |-> dbNameLabel, Columns |-> columns]

\* definitions handed to decode: only the label column's descriptor matters
DecodeDefs ==
    {Definition(<<>>, <<"datname">>, "",
                [n \in ColNames |-> IF n = "datname" THEN c ELSE NoColumn]) :
        c \in LabelColumns}

\* definitions handed to procRows
RowDefs ==
    {Definition(<<>>, ls, db,
                [n \in ColNames |-> IF n = "datname" THEN cd
                                    ELSE IF n = "numbackends" THEN cn ELSE cx]) :
        ls \in {<<>>, <<"datname">>, <<"datname", "numbackends">>,
                <<"numbackends", "datname">>},
        db \in {"", "numbackends"},
        cd \in LabelColumns,
        cn \in ValueColumns,
        cx \in {NoColumn, Column("COUNTER", FALSE, FALSE, FALSE, "counter")}}

\* column lists of the result sets
ColumnLists ==
    {<<"datname", "numbackends", "xact_commit">>,
     <<"xact_commit", "numbackends", "datname">>,
     <<"numbackends", "xact_commit">>,
     <<"numbackends", "numbackends">>,
     <<>>}

\* the values a row holds in one column
RowValues == {VInt(3), VNil, VString(<<78>>), VString(<<49>>), VBytes(<<208>>)}

RowsOf(names) == [1..Len(names) -> RowValues]

\* a table without entries
EmptyTable == [n \in {} |-> 0]

\* what a configuration path names: nothing, a file (its name ending in
\* ".yaml" or not, its content well-formed or not, its definitions healthy
\* or not, the priority each definition is given, 0 when it gives none), or
\* a directory (its entries in the order of their names)
PathNode(kind, yaml, status, queries, entries) ==
    [kind |-> kind, yaml |-> yaml, status |-> status, queries |-> queries,
     entries |-> entries]

NoPath == PathNode("missing", FALSE, "", EmptyTable, <<>>)

NoCall ==
    [op |-> "none", val |-> VNil, flag |-> FALSE, b |-> <<>>, charset |-> <<>>,
     q |-> Definition(<<>>, <<>>, "", [n \in ColNames |-> NoColumn]),
     label |-> "", dbName |-> <<>>, names |-> <<>>, row |-> <<>>, conf |-> NoPath]

\* the arguments of a procRows call as the caller sees them
Inputs(queryInstance, names, columnData) ==
    [q |-> queryInstance, names |-> names, row |-> columnData]

NoRet ==
    [done |-> FALSE, f |-> NaN, ok |-> FALSE, s |-> <<>>, err |-> FALSE, out |-> NoOut,
     again |-> FALSE, out2 |-> NoOut, before |-> Inputs(NoCall.q, <<>>, <<>>)]

\* procRows using up the label names of the definition it is given
procRowsDropsLabels(queryInstance, names, colIdx, columnData) ==
    Inputs([queryInstance EXCEPT !.LabelNames = <<>>], names, columnData)

\* what procRows leaves in the definition, the column names and the row it
\* was given: it assigns to none of them, nor through the pointer
procRowsLeaves(queryInstance, names, colIdx, columnData) ==
    Inputs(queryInstance, names, columnData)

----------------------------------------------------------------------------
(* The helper calls: Init draws a call, the action of its operation applies it *)

\* context.TODO(): a context that is never cancelled
ContextTODO == [cancellable |-> FALSE, cancelled |-> FALSE, at |-> 0]

\* no Update invocation, no package configuration, no scrape in flight
NoUpdate ==
    [name |-> "", db |-> "", pc |-> "none", checked |-> "", err |-> "", ch |-> <<>>]

NoEnv == [MonitDB |-> "", MetricMap |-> 0, heap |-> <<>>, DBMap |-> {}]

NoProcs == <<>>

InitMetric ==
    /\ qi = NoCall.q
    /\ pc = "idle"
    /\ qn = 1
    /\ columnNames = <<>>
    /\ list = <<>>
    /\ rn = 1
    /\ metrics = <<>>
    /\ dblog = <<>>
    /\ columnIdx = <<>>
    /\ ctx = ContextTODO
    /\ upd = NoUpdate
    /\ env = NoEnv
    /\ procs = NoProcs

metricVars == <<qi, pc, qn, columnNames, list, rn, metrics, dblog, columnIdx, ctx,
                upd, env, procs>>

\* the calls made: one of each operation for each input of its bounded sets
InitCall ==
    /\ \/ \E v \in Values : call = [NoCall EXCEPT !.op = "DbToFloat64", !.val = v]
       \/ \E v \in Values, t \in BOOLEAN :
             call = [NoCall EXCEPT !.op = "DbToString", !.val = v, !.flag = t]
       \/ \E s \in Texts, c \in {UTF8, LowerSeq(UTF8), UTF8Underline, BogusCharset} :
             call = [NoCall EXCEPT !.op = "DecodeByte", !.b = s, !.charset = c]
       \/ \E s \in ASCIITexts, c \in {GBK, GB18030} :
             call = [NoCall EXCEPT !.op = "DecodeByte", !.b = s, !.charset = c]
       \/ \E q \in DecodeDefs, d \in {<<>>, <<49>>, <<208>>} :
             \E v \in {VBytes(s) : s \in Texts} \cup {VString(s) : s \in Texts}
                       \cup {VNil, VInt(3), VOther} :
                call = [NoCall EXCEPT !.op = "decode", !.q = q, !.val = v,
                                      !.label = "datname", !.dbName = d]
       \/ \E q \in RowDefs, ns \in ColumnLists :
             \E r \in RowsOf(ns) :
                call = [NoCall EXCEPT !.op = "procRows", !.q = q, !.names = ns, !.row = r]
    /\ ret = NoRet
    /\ InitMetric

CallDbToFloat64 ==
    /\ call.op = "DbToFloat64" /\ ~ret.done
    /\ ret' = [NoRet EXCEPT !.done = TRUE, !.f = DbToFloat64(call.val).f,
                            !.ok = DbToFloat64(call.val).ok]
    /\ UNCHANGED <<call, metricVars>>

CallDbToString ==
    /\ call.op = "DbToString" /\ ~ret.done
    /\ ret' = [NoRet EXCEPT !.done = TRUE, !.s = DbToString(call.val, call.flag).s,
                            !.ok = DbToString(call.val, call.flag).ok]
    /\ UNCHANGED <<call, metricVars>>

CallDecodeByte ==
    /\ call.op = "DecodeByte" /\ ~ret.done
    /\ ret' = [NoRet EXCEPT !.done = TRUE, !.s = DecodeByte(call.b, call.charset).b,
                            !.err = DecodeByte(call.b, call.charset).err]
    /\ UNCHANGED <<call, metricVars>>

CallDecode ==
    /\ call.op = "decode" /\ ~ret.done
    /\ ret' = [NoRet EXCEPT !.done = TRUE,
                            !.s = decode(call.q, call.val, call.label, call.dbName).s,
                            !.err = decode(call.q, call.val, call.label, call.dbName).err]
    /\ UNCHANGED <<call, metricVars>>

CallProcRows ==
    /\ call.op = "procRows" /\ ~ret.done
    /\ LET idx   == MakeColumnIdx(call.names)
           after == procRowsLeaves(call.q, call.names, idx, call.row)
       IN  /\ ret' = [NoRet EXCEPT !.done = TRUE,
                                   !.out = procRows(call.q, call.names, idx, call.row),
                                   !.before = Inputs(call.q, call.names, call.row)]
           /\ call' = [call EXCEPT !.q = after.q, !.names = after.names,
                                   !.row = after.row]
    /\ UNCHANGED metricVars

\* procRows is called once more with the same definition, column names,
\* lookup map and row, as the first call left them
CallProcRowsAgain ==
    /\ call.op = "procRows" /\ ret.done /\ ~ret.again
    /\ LET idx   == MakeColumnIdx(call.names)
           after == procRowsLeaves(call.q, call.names, idx, call.row)
       IN  /\ ret' = [ret EXCEPT !.again = TRUE,
                                 !.out2 = procRows(call.q, call.names, idx, call.row)]
           /\ call' = [call EXCEPT !.q = after.q, !.names = after.names,
                                   !.row = after.row]
    /\ UNCHANGED metricVars

NextCall ==
    \/ CallDbToFloat64
    \/ CallDbToString
    \/ CallDecodeByte
    \/ CallDecode
    \/ CallProcRows
    \/ CallProcRowsAgain

SpecCall == InitCall /\ [][NextCall]_vars

----------------------------------------------------------------------------
(* collector/opengauss: getMetric *)

\* the Status values of a statement variant: enabled, disabled, left out,
\* and disabled spelt with a capital (Status is a string the configuration
\* file sets freely)
Statuses == {"enable", "disable", "", "Disable"}

Query(status, sql) == [Status |-> status, SQL |-> sql]

\* the Status lists of the definitions: up to MaxQueries statement variants
\* enabled or disabled, and one variant whose Status is left out or spelt
\* otherwise
StatusLists ==
    SeqsUpTo({"enable", "disable"}, MaxQueries) \cup {<<s>> : s \in Statuses}

\* a definition with the given statement variants, one label column whose
\* UTF-8 check is required or not, and two value columns
MetricDef(ss, check) ==
    Definition([i \in 1..Len(ss) |-> Query(ss[i], i)], <<"datname">>, "",
               [n \in ColNames |->
                   IF n = "datname" THEN Column("LABEL", TRUE, FALSE, check, "untyped")
                   ELSE IF n = "numbackends" THEN Column("GAUGE", FALSE, FALSE, FALSE, "gauge")
                   ELSE Column("COUNTER", FALSE, FALSE, FALSE, "counter")])

\* the definitions getMetric is called with: every status list with the
\* label unchecked, and one statement variant with the label checked
MetricDefs ==
    {MetricDef(ss, FALSE) : ss \in StatusLists} \cup {MetricDef(<<"enable">>, TRUE)}

\* the column lists a statement's result set may have
ResultColumnLists == {<<"datname", "numbackends">>, <<"numbackends">>}

\* the values a scanned row may hold in a column of the given name
ScannedValues(name) ==
    IF name = "datname" THEN {VString(<<78>>), VBytes(<<208>>)}
    ELSE {VInt(3), VString(<<78>>)}

\* the rows a result set with the given columns may hold
ScannedRowsOf(cs) ==
    {r \in [1..Len(cs) -> UNION {ScannedValues(n) : n \in ColNames}] :
        \A i \in 1..Len(cs) : r[i] \in ScannedValues(cs[i])}

\* a statement is skipped without being executed
SkipsNothing(query) == FALSE

\* a statement is skipped whatever the letter case of its Status
IsDisabledAnyCase(query) == query.Status \in {"disable", "Disable"}

\* line 72: query.Status == "disable"
IsDisabled(query) == query.Status = "disable"

\* the loop leaves at a failed statement instead of continuing
BreakAfterError(queryInstance, n) == Len(queryInstance.Queries) + 1

\* the statement the loop goes to after db.QueryContext returned an error
NextAfterError(queryInstance, n) == n + 1

\* the record the database keeps of an executed statement and of the rows
\* scanned from its result set
Executed(n, outcome, columns) ==
    [stmt |-> n, outcome |-> outcome, columns |-> columns, scanned |-> <<>>]

\* columnNames keeps the columns of the first result set
KeepFirstColumns(old, columns) == IF old = <<>> THEN columns ELSE old

\* line 84: columnNames after rows.Columns() of a result set
ColumnsAfter(old, columns) == columns

\* db.QueryContext not looking at its context
QueryContextIgnoresCtx(c) == {"error", "rows"}

\* line 75: what db.QueryContext may return under the context c: with c
\* cancelled it returns c's error before anything is sent to the database
QueryContextOutcomes(c) ==
    IF c.cancelled THEN {"cancelled"} ELSE {"error", "rows"}

\* a context the caller may cancel, not cancelled yet
LiveContext == [cancellable |-> TRUE, cancelled |-> FALSE, at |-> 0]

InCall == /\ call = NoCall /\ ret = NoRet

\* the local variables of getMetric at line 67
EnterGetMetric ==
    /\ pc = "loop"
    /\ qn = 1
    /\ columnNames = <<>>
    /\ list = <<>>
    /\ rn = 1
    /\ metrics = <<>>
    /\ dblog = <<>>
    /\ columnIdx = <<>>

\* getMetric called as the collectors call it, with context.TODO()
Init ==
    /\ InCall
    /\ qi \in MetricDefs
    /\ EnterGetMetric
    /\ ctx = ContextTODO
    /\ upd = NoUpdate
    /\ env = NoEnv
    /\ procs = NoProcs

\* the caller of getMetric cancels the context while the statements run
Cancel ==
    /\ pc \in {"loop", "rows"}
    /\ ctx.cancellable /\ ~ctx.cancelled
    /\ ctx' = [ctx EXCEPT !.cancelled = TRUE, !.at = Len(dblog)]
    /\ UNCHANGED <<outerVars, columnIdx, call, ret, qi, pc, qn, columnNames, list, rn,
                   metrics, dblog>>

\* lines 71-74: a disabled statement variant is passed over
SkipDisabled ==
    /\ pc = "loop" /\ qn <= Len(qi.Queries)
    /\ IsDisabled(qi.Queries[qn])
    /\ qn' = qn + 1
    /\ UNCHANGED <<outerVars, columnIdx, ctx, call, ret, qi, pc, columnNames, list, rn, metrics, dblog>>

\* lines 75-79: db.QueryContext returns an error
QueryFails ==
    /\ pc = "loop" /\ qn <= Len(qi.Queries)
    /\ ~IsDisabled(qi.Queries[qn])
    /\ \E o \in QueryContextOutcomes(ctx) \ {"rows"} :
          dblog' = Append(dblog, Executed(qn, o, <<>>))
    /\ qn' = NextAfterError(qi, qn)
    /\ UNCHANGED <<outerVars, columnIdx, ctx, call, ret, qi, pc, columnNames, list, rn, metrics>>

\* lines 75-84: db.QueryContext returns a result set; its columns become
\* columnNames
QueryReturnsRows ==
    /\ pc = "loop" /\ qn <= Len(qi.Queries)
    /\ ~IsDisabled(qi.Queries[qn])
    /\ "rows" \in QueryContextOutcomes(ctx)
    /\ \E cs \in ResultColumnLists :
          /\ columnNames' = ColumnsAfter(columnNames, cs)
          /\ dblog' = Append(dblog, Executed(qn, "rows", cs))
    /\ pc' = "rows"
    /\ UNCHANGED <<outerVars, columnIdx, ctx, call, ret, qi, qn, list, rn, metrics>>

\* lines 85-96: rows.Next() has a row and rows.Scan reads it
ScanRow ==
    /\ pc = "rows"
    /\ Len(list) < MaxRows
    /\ \E r \in ScannedRowsOf(columnNames) :
          /\ list' = Append(list, r)
          /\ dblog' = [dblog EXCEPT ![Len(dblog)].scanned = Append(@, r)]
    /\ UNCHANGED <<outerVars, columnIdx, ctx, call, ret, qi, pc, qn, columnNames, rn, metrics>>

\* list without the rows the failing statement had appended to it
DropScanned(rows, scanned) == SubSeq(rows, 1, Len(rows) - Len(scanned))

\* lines 91-94: the break after a failed rows.Scan leaves list as it is, the
\* rows already appended at line 96 included
AfterScanError(rows, scanned) == rows

\* lines 91-95: rows.Scan fails and the row loop is left
ScanFails ==
    /\ pc = "rows"
    /\ dblog' = [dblog EXCEPT ![Len(dblog)].outcome = "scanerror"]
    /\ list' = AfterScanError(list, dblog[Len(dblog)].scanned)
    /\ pc' = "loop"
    /\ qn' = qn + 1
    /\ UNCHANGED <<outerVars, columnIdx, ctx, call, ret, qi, columnNames, rn, metrics>>

\* line 85: rows.Next() reports the end of the result set
RowsEnd ==
    /\ pc = "rows"
    /\ pc' = "loop"
    /\ qn' = qn + 1
    /\ UNCHANGED <<outerVars, columnIdx, ctx, call, ret, qi, columnNames, list, rn, metrics, dblog>>

\* lines 99-104: the statement loop is over; the lookup map is built from
\* the columnNames left by the last result set
LoopEnds ==
    /\ pc = "loop" /\ qn > Len(qi.Queries)
    /\ columnIdx' = MakeColumnIdx(columnNames)
    /\ pc' = "proc"
    /\ UNCHANGED <<outerVars, ctx, call, ret, qi, qn, columnNames, list, rn, metrics, dblog>>

\* lines 84-98: the result set of executed statement k is open: its rows
\* are being read, or the row loop was left by the break after a failed
\* rows.Scan; getMetric calls rows.Close nowhere, and a result set is closed
\* for it only by rows.Next() returning false
ResultSetOpen(k) ==
    \/ dblog[k].outcome = "scanerror"
    \/ dblog[k].outcome = "rows" /\ k = Len(dblog) /\ pc = "rows"

RECURSIVE FirstPanic(_, _, _, _)
\* the index of the first of the rows n.. of list on which procRows panics,
\* Len(list) + 1 when there is none
FirstPanic(q, names, idx, n) ==
    IF n > Len(list) THEN n
    ELSE IF procRows(q, names, idx, list[n]).panic THEN n
    ELSE FirstPanic(q, names, idx, n + 1)

RECURSIVE AppendSamples(_, _, _, _)
\* metrics after the rows 1..n of list went through procRows
AppendSamples(q, names, idx, n) ==
    IF n = 0 THEN <<>>
    ELSE AppendSamples(q, names, idx, n - 1)
         \o procRows(q, names, idx, list[n]).metrics

\* lines 105-114: every row of list goes through procRows and the samples
\* are returned
ProcessRows ==
    /\ pc = "proc"
    /\ FirstPanic(qi, columnNames, columnIdx, 1) > Len(list)
    /\ metrics' = AppendSamples(qi, columnNames, columnIdx, Len(list))
    /\ rn' = Len(list) + 1
    /\ pc' = "done"
    /\ UNCHANGED <<outerVars, columnIdx, ctx, call, ret, qi, qn, columnNames, list, dblog>>

\* lines 105-106: procRows panics on an index out of range at some row, and
\* so does getMetric
ProcessRowsPanics ==
    /\ pc = "proc"
    /\ FirstPanic(qi, columnNames, columnIdx, 1) <= Len(list)
    /\ rn' = FirstPanic(qi, columnNames, columnIdx, 1)
    /\ metrics' = AppendSamples(qi, columnNames, columnIdx,
                                FirstPanic(qi, columnNames, columnIdx, 1) - 1)
    /\ pc' = "panic"
    /\ UNCHANGED <<outerVars, columnIdx, ctx, call, ret, qi, qn, columnNames, list, dblog>>

Next ==
    \/ SkipDisabled
    \/ QueryFails
    \/ QueryReturnsRows
    \/ ScanRow
    \/ ScanFails
    \/ RowsEnd
    \/ LoopEnds
    \/ ProcessRows
    \/ ProcessRowsPanics

Spec == Init /\ [][Next]_vars

\* the definitions getMetric is called with under a context that may be
\* cancelled: those whose statement variants are enabled or disabled
CtxDefs ==
    {q \in MetricDefs :
        \A i \in 1..Len(q.Queries) : q.Queries[i].Status \in {"enable", "disable"}}

\* getMetric called with a context its caller may cancel
InitCtx ==
    /\ InCall
    /\ qi \in CtxDefs
    /\ EnterGetMetric
    /\ ctx = LiveContext
    /\ upd = NoUpdate
    /\ env = NoEnv
    /\ procs = NoProcs

NextCtx ==
    \/ Cancel
    \/ Next

SpecCtx == InitCtx /\ [][NextCtx]_vars

----------------------------------------------------------------------------
(* collector/opengauss: the collectors and their Update *)

\* the target of the data source name NewPGDataBaseCollector opens
HardCodedTarget == "47.107.113.111:15432"

\* the version DBMap records for a target whose version is known
KnownVersion == "5.0.0"

\* config.GetDBConnection: the connection DBMap holds under "address:port",
\* the zero value (a nil connection) when it holds none
GetDBConnection(e, target) ==
    IF target \in DOMAIN e.DBMap THEN e.DBMap[target].Connection ELSE "nil"

\* config.GetDBVersion: the version DBMap holds under "address:port"
GetDBVersion(e, target) ==
    IF target \in DOMAIN e.DBMap THEN e.DBMap[target].Version ELSE ""

\* a collector as its constructor returns it, Update not yet called
Collector(name, db) == [NoUpdate EXCEPT !.name = name, !.db = db, !.pc = "start"]

NewpgDownStreamCollector(e) == Collector("pg_downstream", GetDBConnection(e, e.MonitDB))

\* the constructor opens its own connection from a fixed data source name
NewPGDataBaseCollector(e) == Collector("pg_database", HardCodedTarget)

NewpgCollector(e) == Collector("pg", GetDBConnection(e, e.MonitDB))

\* the gauges of pgCollector: "up" is built by the constructor, "version" by
\* Update, both with the server constant label
UpGauge(server) ==
    [Nil |-> FALSE, desc |-> [fqName |-> <<"pg", "up">>, variableLabels |-> <<>>,
                              server |-> server],
     valueType |-> "gauge", value |-> Norm(1, 0), labels |-> <<>>]

VersionGauge(server, version) ==
    [Nil |-> FALSE, desc |-> [fqName |-> <<"pg", "version">>, variableLabels |-> <<>>,
                              server |-> server, short_version |-> version],
     valueType |-> "gauge", value |-> Norm(0, 0), labels |-> <<>>]

\* a small definition: one enabled statement variant
SmallDef == MetricDef(<<"enable">>, FALSE)

\* the tables MetricMap may refer to: an entry for every collector, the one of
\* pg_downstream any definition, or no entry at all
ScrapeTables ==
    {[n \in {"pg_downstream", "pg_database", "pg"} |->
         IF n = "pg_downstream" THEN d ELSE SmallDef] : d \in MetricDefs}
    \cup {[n \in {} |-> SmallDef]}

\* the package configuration when the collectors are constructed: the
\* monitored target, its connection in DBMap, the table MetricMap refers to
ScrapeEnv(table, version) ==
    [MonitDB |-> ServerLabel, MetricMap |-> 1, heap |-> <<table>>,
     DBMap |-> [k \in {ServerLabel} |-> [Connection |-> ServerLabel, Version |-> version]]]

\* Update going on after Check whatever it returned
AfterCheckIgnored(err) == "getMetric"

\* lines 29-32 of Update: where it goes after queryInstance.Check() returned
AfterCheck(err) == IF err # "" THEN "returned" ELSE "getMetric"

\* a collector is constructed and its Update is about to be called
InitScrape ==
    /\ InCall
    /\ qi = NoCall.q
    /\ pc = "idle"
    /\ qn = 1
    /\ columnNames = <<>>
    /\ list = <<>>
    /\ rn = 1
    /\ metrics = <<>>
    /\ dblog = <<>>
    /\ columnIdx = <<>>
    /\ ctx = ContextTODO
    /\ procs = NoProcs
    /\ \E table \in ScrapeTables, version \in {"", KnownVersion} :
          /\ env = ScrapeEnv(table, version)
          /\ upd \in {NewpgDownStreamCollector(env), NewPGDataBaseCollector(env),
                       NewpgCollector(env)}
          /\ version = "" => upd.name = "pg"

\* lines 24-27 of Update: the definition is looked up in MetricMap by the
\* collector's name
UpdateLookup ==
    /\ upd.pc = "start"
    /\ LET table == env.heap[env.MetricMap]
       IN  IF upd.name \in DOMAIN table
           THEN /\ qi' = table[upd.name]
                /\ upd' = [upd EXCEPT !.pc = "check"]
           ELSE /\ upd' = [upd EXCEPT !.pc = "returned", !.err = "notfound"]
                /\ UNCHANGED qi
    /\ UNCHANGED <<call, ret, pc, qn, columnNames, list, rn, metrics, dblog, columnIdx,
                   ctx, env, procs>>

\* lines 29-32 of Update: queryInstance.Check() returns nil or an error;
\* after nil, getMetric is called with context.TODO()
UpdateChecks ==
    /\ upd.pc = "check"
    /\ \E e \in {"", "check"} :
          /\ upd' = [upd EXCEPT !.checked = IF e = "" THEN "ok" ELSE "failed",
                                !.pc = AfterCheck(e),
                                !.err = IF AfterCheck(e) = "returned" THEN e ELSE ""]
          /\ pc' = IF AfterCheck(e) = "getMetric" THEN "loop" ELSE pc
    /\ UNCHANGED <<call, ret, qi, qn, columnNames, list, rn, metrics, dblog, columnIdx,
                   ctx, env, procs>>

\* lines 33-36 of the Update of a collector other than pg: the samples
\* getMetric returned are sent to the channel and nil is returned
UpdateEmits ==
    /\ upd.pc = "getMetric" /\ pc = "done"
    /\ upd.name # "pg"
    /\ upd' = [upd EXCEPT !.ch = @ \o metrics, !.pc = "returned", !.err = ""]
    /\ UNCHANGED <<call, ret, qi, pc, qn, columnNames, list, rn, metrics, dblog,
                   columnIdx, ctx, env, procs>>

\* lines 35-49 of pgCollector.Update: the samples, then the up gauge set to
\* 1, then the version gauge unless the version is unknown
UpdatePgEmits ==
    /\ upd.pc = "getMetric" /\ pc = "done"
    /\ upd.name = "pg"
    /\ LET dbVersion == GetDBVersion(env, env.MonitDB)
       IN  upd' = [upd EXCEPT
                     !.ch = @ \o metrics \o <<UpGauge(env.MonitDB)>>
                              \o (IF dbVersion = "" THEN <<>>
                                  ELSE <<VersionGauge(env.MonitDB, dbVersion)>>),
                     !.pc = "returned",
                     !.err = IF dbVersion = "" THEN "version" ELSE ""]
    /\ UNCHANGED <<call, ret, qi, pc, qn, columnNames, list, rn, metrics, dblog,
                   columnIdx, ctx, env, procs>>

\* getMetric panicked on an index out of range: nothing in Update recovers,
\* the panic leaves Update
UpdatePanics ==
    /\ upd.pc = "getMetric" /\ pc = "panic"
    /\ upd' = [upd EXCEPT !.pc = "panic"]
    /\ UNCHANGED <<call, ret, qi, pc, qn, columnNames, list, rn, metrics, dblog,
                   columnIdx, ctx, env, procs>>

NextScrape ==
    \/ UpdateLookup
    \/ UpdateChecks
    \/ UpdateEmits
    \/ UpdatePgEmits
    \/ UpdatePanics
    \/ Next

SpecScrape == InitScrape /\ [][NextScrape]_vars

----------------------------------------------------------------------------
(* Concurrent scrapes and the configuration (re)initialisation *)

\* the collectors the handler's goroutines call Update on; every scrape
\* request uses the same collector objects
ServedCollectors == {"pg", "pg_downstream"}

\* the tables LoadConfig may return: one definition per collector, the same
\* for both, of one statement or of two
ServeTables ==
    {[n \in ServedCollectors |-> d] : d \in {SmallDef, MetricDef(<<"enable", "disable">>, FALSE)}}

\* one Update invocation: its collector, its position, the table and the
\* entry its lookup returned, and the locations it has read and written
Invocation(name) ==
    [name |-> name, pc |-> "start", table |-> 0, entry |-> NoCall.q, err |-> "",
     reads |-> {}, writes |-> {}]

\* the invocation after reading the locations rs and writing the locations ws
Accessed(inv, rs, ws) ==
    [inv EXCEPT !.reads = @ \cup rs, !.writes = @ \cup ws]

\* the new table written over the table MetricMap refers to
EditInPlace(e, table) == [e EXCEPT !.heap[e.MetricMap] = table]

\* line 53 of InitConfig: the map LoadConfig built is a new object, and the
\* assignment makes MetricMap refer to it
PublishTable(e, table) ==
    [e EXCEPT !.heap = Append(@, table), !.MetricMap = Len(e.heap) + 1]

\* the server is up: the table is initialised, the collectors are
\* constructed, and the handler's goroutines are about to call Update
InitServe ==
    /\ InCall
    /\ qi = NoCall.q
    /\ pc = "idle"
    /\ qn = 1
    /\ columnNames = <<>>
    /\ list = <<>>
    /\ rn = 1
    /\ metrics = <<>>
    /\ dblog = <<>>
    /\ columnIdx = <<>>
    /\ ctx = ContextTODO
    /\ upd = NoUpdate
    /\ \E version \in {"", KnownVersion} :
          env = ScrapeEnv([n \in ServedCollectors |-> SmallDef], version)
    /\ procs \in [1..MaxScrapes -> {Invocation(n) : n \in ServedCollectors}]

\* lines 24-27 of Update: MetricMap is read, then the entry under the
\* collector's name
ServeLookup(p) ==
    /\ procs[p].pc = "start"
    /\ LET table == env.heap[env.MetricMap]
           inv == Accessed(procs[p], {"MetricMap", "table"}, {})
       IN  procs' = [procs EXCEPT ![p] =
              IF inv.name \in DOMAIN table
              THEN [inv EXCEPT !.pc = "check", !.table = env.MetricMap,
                               !.entry = table[inv.name]]
              ELSE [inv EXCEPT !.pc = "returned", !.err = "notfound"]]
    /\ UNCHANGED <<call, ret, qi, pc, qn, columnNames, list, rn, metrics, dblog, columnIdx,
                   ctx, upd, env>>

\* lines 29-31 of Update: Check reads the entry and returns nil or an error
ServeCheck(p) ==
    /\ procs[p].pc = "check"
    /\ \E e \in {"", "check"} :
          procs' = [procs EXCEPT ![p] =
              [Accessed(@, {"table"}, {}) EXCEPT !.pc = AfterCheck(e), !.err = e]]
    /\ UNCHANGED <<call, ret, qi, pc, qn, columnNames, list, rn, metrics, dblog, columnIdx,
                   ctx, upd, env>>

\* lines 32-36 of Update: getMetric reads the collector's connection, the
\* entry and MonitDB, and writes its own local variables only; it returns
\* or panics. The samples are sent; pgCollector.Update goes on.
ServeGetMetric(p) ==
    /\ procs[p].pc = "getMetric"
    /\ \E r \in {"done", "panic"} :
          /\ r = "panic" => Len(procs[p].entry.Queries) > 1
          /\ procs' = [procs EXCEPT ![p] =
                [Accessed(@, {"db", "table", "MonitDB"}, {}) EXCEPT
                   !.pc = IF r = "panic" THEN "panic"
                          ELSE IF procs[p].name = "pg" THEN "up"
                          ELSE "returned"]]
    /\ UNCHANGED <<call, ret, qi, pc, qn, columnNames, list, rn, metrics, dblog, columnIdx,
                   ctx, upd, env>>

\* lines 38-39 of pgCollector.Update: p.up.Set(1) writes the collector's
\* gauge, which is then sent
ServeUp(p) ==
    /\ procs[p].pc = "up"
    /\ procs' = [procs EXCEPT ![p] =
          [Accessed(@, {"pg.up"}, {"pg.up"}) EXCEPT !.pc = "version"]]
    /\ UNCHANGED <<call, ret, qi, pc, qn, columnNames, list, rn, metrics, dblog, columnIdx,
                   ctx, upd, env>>

\* lines 40-49 of pgCollector.Update: the version is read from DBMap; unless
\* it is unknown, a new gauge is assigned to the collector's field version,
\* which is then read and sent
ServeVersion(p) ==
    /\ procs[p].pc = "version"
    /\ LET dbVersion == GetDBVersion(env, env.MonitDB)
       IN  procs' = [procs EXCEPT ![p] =
              IF dbVersion = ""
              THEN [Accessed(@, {"MonitDB", "DBMap"}, {}) EXCEPT
                      !.pc = "returned", !.err = "version"]
              ELSE [Accessed(@, {"MonitDB", "DBMap", "pg.version"}, {"pg.version"}) EXCEPT
                      !.pc = "returned"]]
    /\ UNCHANGED <<call, ret, qi, pc, qn, columnNames, list, rn, metrics, dblog, columnIdx,
                   ctx, upd, env>>

\* Reload, called by the /reload handler and on SIGHUP: it takes
\* ReloadLock, logs, releases the lock and returns nil
Reload == UNCHANGED vars

\* InitConfig: LoadConfig builds a table and MetricMap is assigned it
InitConfig ==
    /\ Len(env.heap) <= MaxReloads
    /\ \E table \in ServeTables : env' = PublishTable(env, table)
    /\ UNCHANGED <<call, ret, qi, pc, qn, columnNames, list, rn, metrics, dblog, columnIdx,
                   ctx, upd, procs>>

NextServe ==
    \/ \E p \in 1..MaxScrapes : ServeLookup(p)
    \/ \E p \in 1..MaxScrapes : ServeCheck(p)
    \/ \E p \in 1..MaxScrapes : ServeGetMetric(p)
    \/ \E p \in 1..MaxScrapes : ServeUp(p)
    \/ \E p \in 1..MaxScrapes : ServeVersion(p)
    \/ Reload
    \/ InitConfig

SpecServe == InitServe /\ [][NextServe]_vars

----------------------------------------------------------------------------
(* collector/config: LoadConfig and InitConfig *)

\* the priorities a file gives a definition: none, or one it sets
ParsedPriorities == {0, 50}

\* the definitions a well-formed file may hold
ParsedQueries ==
    UNION {[d -> ParsedPriorities] : d \in {{"pg"}, {"pg", "pg_database"}}}

File(yaml, status, queries) == PathNode("file", yaml, status, queries, <<>>)

Dir(entries) == PathNode("dir", FALSE, "", EmptyTable, entries)

\* a directory ioutil.ReadDir cannot list
UnreadableDir == PathNode("dir", FALSE, "unreadable", EmptyTable, <<>>)

\* the files: named *.yaml and well-formed, malformed, failing Check or
\* unreadable, or named otherwise (as default_all.yml is)
ConfFiles ==
    {File(TRUE, "ok", m) : m \in ParsedQueries}
    \cup {File(TRUE, "malformed", EmptyTable), File(TRUE, "unhealthy", [n \in {"pg"} |-> 0]),
          File(TRUE, "unreadable", EmptyTable)}
    \cup {File(FALSE, "ok", [n \in {"pg"} |-> 0])}

\* the configuration paths InitConfig is given: no such path, a file, or a
\* directory of files and of directories holding one file
ConfigPaths ==
    {NoPath, UnreadableDir} \cup ConfFiles
    \cup {Dir(es) : es \in SeqsUpTo(ConfFiles \cup {Dir(<<f>>) : f \in ConfFiles}
                                    \cup {UnreadableDir}, MaxFiles)}

\* a definition as the table holds it: its priority, and (kept for the
\* properties) the priority its file gave it
Loaded(parsed) == [Priority |-> parsed, parsed |-> parsed]

\* ParseConfig: yaml.Unmarshal, then Path, Name and Check for every
\* definition; the priority is left as parsed
ParseConfig(content) ==
    IF content.status = "malformed" THEN [queries |-> EmptyTable, err |-> "malformed"]
    ELSE IF content.status = "unhealthy" THEN [queries |-> EmptyTable, err |-> "check"]
    ELSE [queries |-> [n \in DOMAIN content.queries |-> Loaded(content.queries[n])],
          err |-> ""]

\* lines 74-79 of LoadConfig: the entries of the directory that are kept,
\* those named *.yaml and the directories
RECURSIVE KeepConfFiles(_)
KeepConfFiles(files) ==
    IF files = <<>> THEN <<>>
    ELSE IF ~Head(files).yaml /\ Head(files).kind # "dir" THEN KeepConfFiles(Tail(files))
    ELSE <<Head(files)>> \o KeepConfFiles(Tail(files))

\* lines 92-95 of LoadConfig: a definition whose priority is 0 gets the rank
\* of its file, and overwrites the one of the same name
Ranked(singleQueries, configCount) ==
    [n \in DOMAIN singleQueries |->
        IF singleQueries[n].Priority = 0
        THEN [singleQueries[n] EXCEPT !.Priority = 100 + configCount]
        ELSE singleQueries[n]]

\* the definition of the earlier file kept when a later file has one of the
\* same name
KeepEarlier(queries, singleQueries) ==
    [n \in DOMAIN queries \cup DOMAIN singleQueries |->
        IF n \in DOMAIN queries THEN queries[n] ELSE singleQueries[n]]

\* line 95 of LoadConfig: queries[name] = query
Overwrite(queries, singleQueries) ==
    [n \in DOMAIN queries \cup DOMAIN singleQueries |->
        IF n \in DOMAIN singleQueries THEN singleQueries[n] ELSE queries[n]]

RECURSIVE LoadConfig(_)
RECURSIVE LoadConfFiles(_, _, _)

\* lines 85-98 of LoadConfig: the loop over the kept entries, a failing one
\* skipped, the others counted
LoadConfFiles(confFiles, configCount, queries) ==
    IF confFiles = <<>> THEN queries
    ELSE LET single == LoadConfig(Head(confFiles))
         IN  IF single.err # ""
             THEN LoadConfFiles(Tail(confFiles), configCount, queries)
             ELSE LoadConfFiles(Tail(confFiles), configCount + 1,
                                Overwrite(queries, Ranked(single.queries, configCount + 1)))

\* LoadConfig: the table of a path, and the error
LoadConfig(configPath) ==
    IF configPath.kind = "missing" THEN [queries |-> EmptyTable, err |-> "stat"]
    ELSE IF configPath.kind = "dir"
    THEN IF configPath.status = "unreadable"
         THEN [queries |-> EmptyTable, err |-> "readdir"]
         ELSE [queries |-> LoadConfFiles(KeepConfFiles(configPath.entries), 0, EmptyTable),
               err |-> ""]
    ELSE IF configPath.status = "unreadable" THEN [queries |-> EmptyTable, err |-> "read"]
    ELSE ParseConfig(configPath)

\* the table MetricMap refers to when InitConfig is called: the empty map it
\* is declared with, or the table of an earlier call
PreviousTables == {EmptyTable, [n \in {"pg"} |-> Loaded(50)]}

\* InitConfig is about to be called with a path
InitLoad ==
    /\ \E p \in ConfigPaths : call = [NoCall EXCEPT !.op = "InitConfig", !.conf = p]
    /\ ret = NoRet
    /\ qi = NoCall.q
    /\ pc = "idle"
    /\ qn = 1
    /\ columnNames = <<>>
    /\ list = <<>>
    /\ rn = 1
    /\ metrics = <<>>
    /\ dblog = <<>>
    /\ columnIdx = <<>>
    /\ ctx = ContextTODO
    /\ upd = NoUpdate
    /\ procs = NoProcs
    /\ \E previous \in PreviousTables :
          env = [NoEnv EXCEPT !.heap = <<previous>>, !.MetricMap = 1]

\* InitConfig: MetricMap, err = LoadConfig(configPath), and err returned
CallInitConfig ==
    /\ call.op = "InitConfig" /\ ~ret.done
    /\ LET loaded == LoadConfig(call.conf)
       IN  /\ env' = PublishTable(env, loaded.queries)
           /\ ret' = [NoRet EXCEPT !.done = TRUE, !.err = (loaded.err # "")]
    /\ UNCHANGED <<call, qi, pc, qn, columnNames, list, rn, metrics, dblog, columnIdx,
                   ctx, upd, procs>>

NextLoad == CallInitConfig

SpecLoad == InitLoad /\ [][NextLoad]_vars

----------------------------------------------------------------------------
(* main: the server, the signal goroutine and Reload *)

\* line 371: sigChan := make(chan os.Signal, 2)
SigChanCap == 2

\* the signals the model sends of those line 372 registers
Signals == {"SIGHUP", "SIGTERM", "SIGINT"}

\* the process after line 367: the server goroutine serves, the signal
\* goroutine is about to receive from sigChan, main waits on closeChan, and
\* ReloadLock is free. received, hups, terminated and reloads count what
\* happened; dropped holds the signals that found sigChan full.
Serving ==
    [sigChan |-> <<>>, sigpc |-> "recv", closeChan |-> 0, mainpc |-> "wait",
     srv |-> "serving", httppc |-> "idle", scrape |-> FALSE, lock |-> "free",
     received |-> 0, hups |-> 0, terminated |-> FALSE, reloads |-> 0, dropped |-> <<>>]

\* os/signal sends to sigChan without blocking: the signal is dropped when
\* the channel is full
NotifySend(c, s) == IF Len(c) < SigChanCap THEN Append(c, s) ELSE c

InitSignals ==
    /\ InCall
    /\ qi = NoCall.q
    /\ pc = "idle"
    /\ qn = 1
    /\ columnNames = <<>>
    /\ list = <<>>
    /\ rn = 1
    /\ metrics = <<>>
    /\ dblog = <<>>
    /\ columnIdx = <<>>
    /\ ctx = ContextTODO
    /\ upd = NoUpdate
    /\ env = NoEnv
    /\ procs = Serving

\* what the lifecycle actions leave alone
idleVars ==
    <<call, ret, qi, pc, qn, columnNames, list, rn, metrics, dblog, columnIdx, ctx, upd, env>>

\* the process receives a signal while sigChan is registered (line 372,
\* until the deferred signal.Stop of line 373)
Signal ==
    /\ procs.sigpc # "exited"
    /\ procs.received < MaxSignals
    /\ \E s \in Signals :
          procs' = [procs EXCEPT
                      !.received = @ + 1,
                      !.sigChan = NotifySend(@, s),
                      !.hups = IF s = "SIGHUP" /\ ~procs.terminated THEN @ + 1 ELSE @,
                      !.terminated = @ \/ s # "SIGHUP",
                      !.dropped = IF NotifySend(procs.sigChan, s) = procs.sigChan
                                  THEN Append(@, s) ELSE @]
    /\ UNCHANGED idleVars

\* lines 375-384: sig := <-sigChan and the switch: Reload is called for
\* SIGHUP, a value is to be sent on closeChan for any other signal
SigReceives ==
    /\ procs.sigpc = "recv" /\ procs.sigChan # <<>>
    /\ procs' = [procs EXCEPT
                   !.sigChan = Tail(@),
                   !.sigpc = IF Head(procs.sigChan) = "SIGHUP" THEN "lock" ELSE "send"]
    /\ UNCHANGED idleVars

\* line 396: ReloadLock.Lock() in the Reload the signal goroutine called
SigLocks ==
    /\ procs.sigpc = "lock" /\ procs.lock = "free"
    /\ procs' = [procs EXCEPT !.sigpc = "reload", !.lock = "sig"]
    /\ UNCHANGED idleVars

\* lines 397-419: Reload logs, unlocks and returns nil; the goroutine goes
\* back to the receive
SigReloads ==
    /\ procs.sigpc = "reload"
    /\ procs' = [procs EXCEPT !.sigpc = "recv", !.lock = "free", !.reloads = @ + 1]
    /\ UNCHANGED idleVars

\* lines 381-382 and 373: closeChan <- struct{}{}, return, signal.Stop
SigSends ==
    /\ procs.sigpc = "send" /\ procs.closeChan = 0
    /\ procs' = [procs EXCEPT !.sigpc = "exited", !.closeChan = 1]
    /\ UNCHANGED idleVars

\* lines 337-345: a /reload request arrives and its handler calls Reload
HttpReloadRequest ==
    /\ procs.srv = "serving" /\ procs.httppc = "idle"
    /\ procs' = [procs EXCEPT !.httppc = "lock"]
    /\ UNCHANGED idleVars

\* line 396: ReloadLock.Lock() in the Reload the handler called
HttpLocks ==
    /\ procs.httppc = "lock" /\ procs.lock = "free"
    /\ procs' = [procs EXCEPT !.httppc = "reload", !.lock = "http"]
    /\ UNCHANGED idleVars

\* lines 397-419 and 342-343: Reload returns and the response is written
HttpReloads ==
    /\ procs.httppc = "reload"
    /\ procs' = [procs EXCEPT !.httppc = "idle", !.lock = "free"]
    /\ UNCHANGED idleVars

\* a scrape request arrives; its statements run with context.TODO()
ScrapeStarts ==
    /\ procs.srv = "serving" /\ ~procs.scrape
    /\ procs' = [procs EXCEPT !.scrape = TRUE]
    /\ UNCHANGED idleVars

\* the scrape's statements return and the response is written
ScrapeEnds ==
    /\ procs.scrape
    /\ procs' = [procs EXCEPT !.scrape = FALSE]
    /\ UNCHANGED idleVars

\* lines 387-389: main receives from closeChan and calls
\* srv.Shutdown(context.Background()), which closes the listeners
MainShutsDown ==
    /\ procs.mainpc = "wait" /\ procs.closeChan = 1
    /\ procs' = [procs EXCEPT !.mainpc = "shutdown", !.closeChan = 0, !.srv = "closing"]
    /\ UNCHANGED idleVars

\* lines 389-393: Shutdown returns once no request is in progress, and main
\* returns
ShutdownReturns ==
    /\ procs.mainpc = "shutdown"
    /\ ~procs.scrape /\ procs.httppc = "idle"
    /\ procs' = [procs EXCEPT !.mainpc = "returned", !.srv = "closed"]
    /\ UNCHANGED idleVars

\* the steps of the goroutines of the process
GoroutineSteps ==
    \/ SigReceives
    \/ SigLocks
    \/ SigReloads
    \/ SigSends
    \/ HttpLocks
    \/ HttpReloads
    \/ MainShutsDown
    \/ ShutdownReturns

NextSignals ==
    \/ Signal
    \/ HttpReloadRequest
    \/ ScrapeStarts
    \/ ScrapeEnds
    \/ GoroutineSteps

\* the scheduler runs every goroutine that can take a step; the arrival of
\* signals and requests and the return of a scrape's statements are up to
\* the environment
SpecSignals ==
    /\ InitSignals
    /\ [][NextSignals]_vars
    /\ WF_vars(SigReceives) /\ WF_vars(SigLocks) /\ WF_vars(SigReloads)
    /\ WF_vars(SigSends) /\ WF_vars(HttpLocks) /\ WF_vars(HttpReloads)
    /\ WF_vars(MainShutsDown) /\ WF_vars(ShutdownReturns)

----------------------------------------------------------------------------
(* Vocabulary of the properties *)

\* the value is text: a string or a byte sequence
IsText(v) == v.k \in {"bytes", "string"}

\* DbToFloat64 has a number for the value
Coercible(v) == v.k # "other" /\ (IsText(v) => ParseFloat(v.s).ok)

\* the definition declares the column and marks it neither discard nor
\* histogram nor mapped-metric
Eligible(q, name) ==
    /\ name \in DOMAIN q.Columns
    /\ q.Columns[name].Declared
    /\ ~q.Columns[name].DisCard
    /\ ~q.Columns[name].Histogram
    /\ ~EqualFoldMapped(q.Columns[name].Usage)

\* a call of procRows has returned without a panic
RowDone == call.op = "procRows" /\ ret.done /\ ~ret.out.panic

\* the errors of out.errs recorded for column i
ErrorsOf(out, i) == {k \in 1..Len(out.errs) : out.errs[k].index = i}

\* the zero-based position the row processor reads a named column at: the
\* last column of that name
PositionOf(names, name) ==
    CHOOSE j \in 1..Len(names) : names[j] = name /\ \A k \in 1..Len(names) : names[k] = name => k <= j

\* the database name the row processor derives for a row
DbNameOf(q, names, row) ==
    IF q.DBNameLabel = "" THEN <<>>
    ELSE IF q.DBNameLabel \in Range(names)
         THEN DbToString(row[PositionOf(names, q.DBNameLabel)], TRUE).s
    ELSE DbToString(row[1], TRUE).s

\* a row as the data model has it: one value per column name, and the label
\* columns and the database-name column among the column names
WellFormedRow ==
    /\ Len(call.row) = Len(call.names)
    /\ Range(call.q.LabelNames) \subseteq Range(call.names)
    /\ call.q.DBNameLabel = "" \/ call.q.DBNameLabel \in Range(call.names)

----------------------------------------------------------------------------
(* C1 *)

\* column i of the call's row is an eligible column holding unparseable text
FailingColumn(i) ==
    /\ Eligible(call.q, call.names[i])
    /\ IsText(call.row[i]) /\ ~ParseFloat(call.row[i].s).ok

\* column j is another eligible column whose value is coercible
OtherGoodColumn(i, j) ==
    /\ j # i
    /\ call.names[j] # call.names[i]
    /\ Eligible(call.q, call.names[j])
    /\ Coercible(call.row[j])

\* C1 as claimed: a declared numeric column holding unparseable text yields
\* no sample and exactly one non-fatal error, and every other declared numeric
\* column of the row with a coercible value still produces its sample,
\* wherever the failing column stands in the row. Stated for the rows of the
\* data model: one value per column name, label columns present.
C1_AsClaimed ==
    (RowDone /\ WellFormedRow) =>
        \A i \in 1..Len(call.names) :
            FailingColumn(i) =>
                /\ ret.out.cols[i].metric.Nil
                /\ Cardinality(ErrorsOf(ret.out, i)) = 1
                /\ \A j \in 1..Len(call.names) :
                      OtherGoodColumn(i, j) =>
                          \E k \in 1..Len(ret.out.metrics) :
                              ret.out.metrics[k] = ret.out.cols[j].metric
                              /\ ~ret.out.cols[j].metric.Nil

\* C1 amended: as C1, where the other columns produce their samples whenever
\* every label value of the row is valid UTF-8; when one is not, sample
\* construction fails for each of them and each records one recovered
\* non-fatal error instead.
C1_PartialRowFailureIsolation ==
    RowDone =>
        \A i \in 1..Len(call.names) :
            FailingColumn(i) =>
                /\ ret.out.cols[i].metric.Nil
                /\ Cardinality(ErrorsOf(ret.out, i)) = 1
                /\ \A k \in ErrorsOf(ret.out, i) : ret.out.errs[k].kind = "parse"
                /\ \A j \in 1..Len(call.names) :
                      OtherGoodColumn(i, j) =>
                          IF \A l \in 1..Len(ret.out.labels) : ValidString(ret.out.labels[l])
                          THEN /\ ~ret.out.cols[j].metric.Nil
                               /\ \E k \in 1..Len(ret.out.metrics) :
                                     ret.out.metrics[k] = ret.out.cols[j].metric
                               /\ ErrorsOf(ret.out, j) = {}
                          ELSE /\ ret.out.cols[j].metric.Nil
                               /\ \A k \in 1..Len(ret.out.metrics) :
                                     ret.out.metrics[k].desc.fqName[2] # call.names[j]
                               /\ Cardinality(ErrorsOf(ret.out, j)) = 1
                               /\ \A k \in ErrorsOf(ret.out, j) :
                                     ret.out.errs[k].kind = "recovered"

\* a row whose first column fails to parse and whose later column yields
\* its sample
C1_Witness ==
    /\ RowDone
    /\ Len(call.names) = 3
    /\ FailingColumn(1)
    /\ OtherGoodColumn(1, 3)
    /\ Len(ret.out.errs) = 1
    /\ Len(ret.out.metrics) = 1
    /\ ret.out.metrics[1] = ret.out.cols[3].metric

----------------------------------------------------------------------------
(* C2 *)

----------------------------------------------------------------------------
(* C3 *)

----------------------------------------------------------------------------
(* C4 *)

\* C4: DbToString returns ok = false only for a value of unknown kind, and
\* then the empty string; NULL gives ("", true) for both values of
\* time2string, text is passed through unchanged, booleans render as "true"
\* and "false".
C4_CoerceToText ==
    (call.op = "DbToString" /\ ret.done) =>
        /\ ~ret.ok => call.val.k = "other" /\ ret.s = <<>>
        /\ call.val.k = "nil" => ret.s = <<>> /\ ret.ok
        /\ IsText(call.val) => ret.s = call.val.s /\ ret.ok
        /\ call.val = VBool(TRUE) => ret.s = <<116, 114, 117, 101>> /\ ret.ok
        /\ call.val = VBool(FALSE) => ret.s = <<102, 97, 108, 115, 101>> /\ ret.ok

\* NULL has been rendered with time2string set
C4_Witness ==
    /\ call.op = "DbToString" /\ ret.done
    /\ call.val = VNil /\ call.flag
    /\ ret.s = <<>> /\ ret.ok

----------------------------------------------------------------------------
(* C5 *)

\* the text decode starts from
CoercedText == DbToString(call.val, FALSE).s

\* the label column's descriptor requires the UTF-8 check
CheckRequired ==
    call.q.Columns[call.label].Declared /\ call.q.Columns[call.label].CheckUTF8

\* C5: decode returns the coerced text unchanged whenever the check is not
\* required for the label column or the text is well-formed UTF-8, for every
\* database name, the empty one included.
C5_ValidateAndFixUnchanged ==
    (call.op = "decode" /\ ret.done) =>
        ((~CheckRequired \/ ValidString(CoercedText)) =>
            ret.s = CoercedText /\ ~ret.err)

\* well-formed text through a checked column with an empty database name
C5_Witness ==
    /\ call.op = "decode" /\ ret.done
    /\ CheckRequired
    /\ call.dbName = <<>>
    /\ CoercedText = <<208, 128>>
    /\ ret.s = <<208, 128>>

----------------------------------------------------------------------------
(* C6 *)

\* label l of the call's row is ill-formed UTF-8 in a column that requires
\* the check, and the row has no database name
DegradedLabel(l) ==
    LET name == call.q.LabelNames[l]
    IN  /\ name \in Range(call.names)
        /\ call.q.Columns[name].Declared /\ call.q.Columns[name].CheckUTF8
        /\ ~ValidString(DbToString(call.row[PositionOf(call.names, name)], FALSE).s)
        /\ DbNameOf(call.q, call.names, call.row) = <<>>

\* column j yields a sample that carries the empty string as label l
EmitsWithEmptyLabel(j, l) ==
    /\ ~ret.out.cols[j].metric.Nil
    /\ ret.out.cols[j].metric.labels[l] = <<>>
    /\ \E k \in 1..Len(ret.out.metrics) : ret.out.metrics[k] = ret.out.cols[j].metric

----------------------------------------------------------------------------
(* C7 *)

\* C7: for an ill-formed label value with the check required and a database
\* name available, decode returns the text transcoded to UTF-8 when the
\* transcoding succeeds and the empty string when it fails, never the
\* ill-formed text itself.
C7_TranscodeOrEmpty ==
    (call.op = "decode" /\ ret.done /\ CheckRequired /\ ~ValidString(CoercedText)
        /\ call.dbName # <<>>) =>
        /\ ret.s # CoercedText
        /\ ValidString(ret.s)
        /\ ~ret.err
        /\ IF DecodeByte(CoercedText, UTF8).err
           THEN ret.s = <<>>
           ELSE ret.s = DecodeByte(CoercedText, UTF8).b

\* a lone lead byte has been transcoded to the replacement character
C7_Witness ==
    /\ call.op = "decode" /\ ret.done /\ CheckRequired
    /\ CoercedText = <<208>>
    /\ call.dbName = <<49>>
    /\ ret.s = <<239, 191, 189>>

----------------------------------------------------------------------------
(* C8 *)

\* the value the definition's label l stands for in the call's row
ExpectedLabel(l) ==
    LET name == call.q.LabelNames[l]
    IN  decode(call.q, call.row[PositionOf(call.names, name)], name,
               DbNameOf(call.q, call.names, call.row)).s

\* C8: every sample of a row carries as many label values as the definition
\* declares label columns, in the declared label order whatever the column
\* order of the result set, and all samples of a row carry the same label
\* values.
C8_LabelValuesInDeclaredOrder ==
    RowDone =>
        /\ \A k \in 1..Len(ret.out.metrics) :
              /\ Len(ret.out.metrics[k].labels) = Len(call.q.LabelNames)
              /\ Len(ret.out.metrics[k].desc.variableLabels) = Len(call.q.LabelNames)
              /\ ret.out.metrics[k].desc.variableLabels = call.q.LabelNames
              /\ WellFormedRow =>
                    \A l \in 1..Len(call.q.LabelNames) :
                        ret.out.metrics[k].labels[l] = ExpectedLabel(l)
        /\ \A k1, k2 \in 1..Len(ret.out.metrics) :
              ret.out.metrics[k1].labels = ret.out.metrics[k2].labels

\* two labels declared in the opposite order of their columns, with different
\* values, on a row that yields a sample
C8_Witness ==
    /\ RowDone /\ WellFormedRow
    /\ call.q.LabelNames = <<"numbackends", "datname">>
    /\ call.names = <<"datname", "numbackends", "xact_commit">>
    /\ Len(ret.out.metrics) >= 1
    /\ ret.out.metrics[1].labels = <<<<51>>, <<78>>>>

----------------------------------------------------------------------------
(* C9 *)

RECURSIVE ScannedRows(_, _)
\* the rows scanned from the first n executed statements, in order
ScannedRows(log, n) ==
    IF n = 0 THEN <<>> ELSE ScannedRows(log, n - 1) \o log[n].scanned

\* the statement variants of the definition that are not disabled
EnabledStatements == {i \in 1..Len(qi.Queries) : qi.Queries[i].Status # "disable"}

\* C9: getMetric never runs a disabled statement variant: the rows it
\* aggregates come from enabled statements only, and a definition whose
\* statements are all disabled issues no query and contributes no sample.
C9_DisabledNeverRuns ==
    /\ \A k \in 1..Len(dblog) : dblog[k].stmt \in EnabledStatements
    /\ list = ScannedRows(dblog, Len(dblog))
    /\ EnabledStatements = {} => dblog = <<>> /\ list = <<>> /\ metrics = <<>>

\* the first of two statements is disabled, the second returned the two rows
\* that became samples
C9_Witness ==
    /\ pc = "done"
    /\ Len(qi.Queries) = 2
    /\ qi.Queries[1].Status = "disable"
    /\ Len(dblog) = 1 /\ dblog[1].stmt = 2
    /\ Len(list) = 2
    /\ Len(metrics) = 2

----------------------------------------------------------------------------
(* C10 *)

\* the samples one row yields under the final column names
RowSamples(r) == procRows(qi, columnNames, MakeColumnIdx(columnNames), r).metrics

RECURSIVE Flatten(_)
\* the concatenation of a sequence of sequences
Flatten(ss) == IF ss = <<>> THEN <<>> ELSE Head(ss) \o Flatten(Tail(ss))

\* metrics is made of consecutive runs, one per row of list in order, each
\* the samples procRows yields for that row
EveryRowProcessed ==
    metrics = Flatten([n \in 1..Len(list) |-> RowSamples(list[n])])

\* C10: when an enabled statement fails to execute, it contributes no rows,
\* every other enabled statement is still executed wherever the failures
\* fall, and the rows of the statements that succeeded are processed into
\* samples.
C10_StatementFailureIsolation ==
    /\ \A k \in 1..Len(dblog) : dblog[k].outcome = "error" => dblog[k].scanned = <<>>
    /\ pc \in {"proc", "done", "panic"} =>
          /\ \A i \in EnabledStatements :
                Cardinality({k \in 1..Len(dblog) : dblog[k].stmt = i}) = 1
          /\ list = ScannedRows(dblog, Len(dblog))
    /\ pc = "done" =>
          /\ rn = Len(list) + 1
          /\ EveryRowProcessed

\* the first statement failed, the second was executed and its rows became
\* samples
C10_Witness ==
    /\ pc = "done"
    /\ Len(dblog) = 2
    /\ dblog[1].outcome = "error"
    /\ dblog[2].outcome = "rows" /\ Len(dblog[2].scanned) = 2
    /\ list = dblog[2].scanned
    /\ Len(metrics) >= 1

----------------------------------------------------------------------------
(* C11 *)

\* the statements whose execution returned a result set, as indices of dblog
ResultSets == {k \in 1..Len(dblog) : dblog[k].outcome \in {"rows", "scanerror"}}

\* the column list of the most recently executed statement, <<>> when no
\* statement returned a result set
LastColumns ==
    IF ResultSets = {} THEN <<>>
    ELSE dblog[CHOOSE k \in ResultSets : \A j \in ResultSets : j <= k].columns

\* the zero-based position the lookup map gives a name is the last position
\* of that name in the column list
MapsOnto(idx, names) ==
    /\ DOMAIN idx = Range(names)
    /\ \A n \in DOMAIN idx :
          /\ names[idx[n] + 1] = n
          /\ \A j \in 1..Len(names) : names[j] = n => j <= idx[n] + 1

\* every row of list, whichever statement it came from, went through
\* procRows under the given column names and lookup map
EveryRowUnder(names, idx) ==
    metrics = Flatten([n \in 1..Len(list) |-> procRows(qi, names, idx, list[n]).metrics])

\* C11: after the statement loop of getMetric, the column-name list and the
\* name-to-index map used to process all the concatenated rows, those of
\* earlier statements included, are the ones of the most recently executed
\* statement variant (the last one that returned a result set).
C11_CanonicalColumnsFromLastStatement ==
    pc \in {"proc", "done", "panic"} =>
        /\ columnNames = LastColumns
        /\ MapsOnto(columnIdx, LastColumns)
        /\ pc = "done" => EveryRowUnder(LastColumns, columnIdx)

\* two statements returned result sets with different columns, each with a
\* row, and the rows of both were processed under the columns of the second
C11_Witness ==
    /\ pc = "done"
    /\ Len(dblog) = 2
    /\ dblog[1].outcome = "rows" /\ dblog[2].outcome = "rows"
    /\ dblog[1].columns # dblog[2].columns
    /\ Len(dblog[1].scanned) = 1 /\ Len(dblog[2].scanned) = 1
    /\ columnNames = dblog[2].columns
    /\ Len(metrics) >= 1

----------------------------------------------------------------------------
(* C13 *)

\* C13: once the context of getMetric is cancelled while the statements of
\* the definition are being run, no remaining statement variant is executed:
\* every later db.QueryContext returns the context's error without reaching
\* the database, and contributes no row.
C13_CancellationStopsStatements ==
    ctx.cancelled =>
        \A k \in (ctx.at + 1)..Len(dblog) :
            /\ dblog[k].outcome = "cancelled"
            /\ dblog[k].scanned = <<>>

\* the context was cancelled after the first of two statements returned its
\* rows; the second was not executed
C13_Witness ==
    /\ pc = "done"
    /\ ctx.cancelled /\ ctx.at = 1
    /\ Len(dblog) = 2
    /\ dblog[1].outcome = "rows" /\ Len(dblog[1].scanned) >= 1
    /\ dblog[2].outcome = "cancelled"
    /\ list = dblog[1].scanned

----------------------------------------------------------------------------
(* C14 *)

----------------------------------------------------------------------------
(* C15 *)

\* procRows on row n of list, under the column names and lookup map getMetric
\* ends its statement loop with
RowOut(n) == procRows(qi, columnNames, columnIdx, list[n])

\* reading the row by the positions the lookup map and the column names give
\* goes out of range
IndexPanics(row) ==
    \/ qi.DBNameLabel # "" /\ ~InRange(row, Lookup(columnIdx, qi.DBNameLabel))
    \/ \E l \in 1..Len(qi.LabelNames) : ~InRange(row, Lookup(columnIdx, qi.LabelNames[l]))
    \/ Len(columnNames) > Len(row)

\* the label values of row n, one of them not valid UTF-8
BadLabels(n) ==
    \E l \in 1..Len(RowOut(n).labels) : ~ValidString(RowOut(n).labels[l])

\* constructing the sample of column i of row n panics: the column is
\* eligible, its value is coercible, and a label value of the row is not
\* valid UTF-8
ConstructionPanics(n, i) ==
    /\ Eligible(qi, columnNames[i])
    /\ Coercible(list[n][i])
    /\ BadLabels(n)

\* C15: a panic raised while the sample of one column is constructed is
\* caught inside newMetric and returned as a non-fatal error with no sample
\* for that column; it does not propagate out of procRows, and the remaining
\* columns of the row and the remaining rows are still processed.
C15_ConstructionPanicRecovered ==
    /\ pc = "panic" => rn <= Len(list) /\ IndexPanics(list[rn])
    /\ pc = "done" =>
          /\ \A n \in 1..Len(list) :
                /\ ~RowOut(n).panic
                /\ Len(RowOut(n).cols) = Len(columnNames)
                /\ \A i \in 1..Len(columnNames) :
                      /\ ConstructionPanics(n, i) =>
                            /\ RowOut(n).cols[i].metric.Nil
                            /\ RowOut(n).cols[i].err = "recovered"
                            /\ Cardinality(ErrorsOf(RowOut(n), i)) = 1
                      /\ (Eligible(qi, columnNames[i]) /\ Coercible(list[n][i])
                              /\ ~BadLabels(n)) =>
                            /\ ~RowOut(n).cols[i].metric.Nil
                            /\ RowOut(n).cols[i].err = ""
          /\ rn = Len(list) + 1
          /\ EveryRowUnder(columnNames, columnIdx)

\* the first row's sample could not be constructed, for a label value that
\* is not valid UTF-8; the second row was processed and gave its sample
C15_Witness ==
    /\ pc = "done"
    /\ Len(list) = 2
    /\ Len(columnNames) = 2
    /\ ConstructionPanics(1, 2)
    /\ RowOut(1).metrics = <<>>
    /\ ~BadLabels(2) /\ Coercible(list[2][2])
    /\ Len(metrics) = 1 /\ metrics = RowOut(2).metrics

----------------------------------------------------------------------------
\* C12: when queryInstance.Check() returns an error, Update runs no
\* statement, sends nothing to the channel, and returns that error.
C12_FailedCheckAbortsUpdate ==
    upd.checked = "failed" =>
        /\ upd.pc = "returned"
        /\ upd.err = "check"
        /\ dblog = <<>>
        /\ pc = "idle"
        /\ upd.ch = <<>>

\* an Update whose definition failed the check has returned
C12_Witness == upd.checked = "failed" /\ upd.pc = "returned" /\ upd.name \in {"pg", "pg_downstream"}

----------------------------------------------------------------------------
\* C16: the Update of a collector other than pg, its definition found and
\* checked, never panics, and returns nil with every sample getMetric
\* collected sent to the channel, whatever failed below it.
C16_AsClaimed ==
    (upd.name \notin {"", "pg"} /\ upd.checked = "ok") =>
        /\ upd.pc # "panic"
        /\ upd.pc = "returned" => (upd.err = "" /\ upd.ch = metrics)

\* the Update of pg_downstream left by a panic of getMetric, after a statement
\* variant returned more columns than the one before it
C16_PanicLeavesUpdate ==
    /\ upd.name = "pg_downstream" /\ upd.checked = "ok" /\ upd.pc = "panic"
    /\ Len(dblog) >= 2

----------------------------------------------------------------------------
\* C19: whenever a collector's Update has run statements, the connection it
\* ran them on is the one DBMap keeps for config.MonitDB, and the server
\* label of every sample it sent names config.MonitDB too.
C19_AsClaimed ==
    (upd.pc \in {"getMetric", "returned", "panic"} /\ dblog # <<>>) =>
        /\ upd.db = GetDBConnection(env, env.MonitDB)
        /\ \A i \in 1..Len(upd.ch) : upd.ch[i].desc.server = env.MonitDB

\* pg_database has sent samples labelled with config.MonitDB that it read on
\* the connection of its own data source name
C19_LabelNamesAnotherTarget ==
    /\ upd.name = "pg_database" /\ upd.pc = "returned" /\ upd.ch # <<>>
    /\ upd.db = HardCodedTarget
    /\ upd.db # env.MonitDB
    /\ \A i \in 1..Len(upd.ch) : upd.ch[i].desc.server = env.MonitDB

----------------------------------------------------------------------------
\* C17: of two Update invocations in progress together, neither writes a
\* location the other reads or writes.
C17_AsClaimed ==
    \A p, q \in 1..MaxScrapes :
        p # q => procs[p].writes \cap (procs[q].reads \cup procs[q].writes) = {}

\* two invocations of pgCollector.Update have both assigned the collector's
\* field version
C17_BothWriteVersion ==
    \E p, q \in 1..MaxScrapes :
        /\ p # q
        /\ procs[p].name = "pg" /\ procs[q].name = "pg"
        /\ "pg.version" \in procs[p].writes \cap procs[q].writes

----------------------------------------------------------------------------
\* C18: the entry an Update invocation got from its lookup is still, in the
\* table it was read from, what it was at the lookup, whatever Reload and
\* InitConfig did since; an initialisation adds a table and moves MetricMap.
C18_ReloadNeverEditsInPlace ==
    \A p \in 1..MaxScrapes :
        procs[p].table # 0 =>
            /\ procs[p].table \in 1..Len(env.heap)
            /\ procs[p].name \in DOMAIN env.heap[procs[p].table]
            /\ env.heap[procs[p].table][procs[p].name] = procs[p].entry

\* an invocation is still reading the entry of a table that MetricMap no
\* longer refers to, and the table now active holds another definition
C18_Witness ==
    \E p \in 1..MaxScrapes :
        /\ procs[p].pc \in {"check", "getMetric"}
        /\ procs[p].table # 0
        /\ procs[p].table # env.MetricMap
        /\ env.heap[env.MetricMap][procs[p].name] # procs[p].entry

----------------------------------------------------------------------------
\* C20: every definition of the table LoadConfig returns, for a file and
\* for a directory, has a priority within 1..999, and one whose file gave
\* it no priority has a priority of at least 100.
C20_AsClaimed ==
    (call.op = "InitConfig" /\ ret.done) =>
        LET table == env.heap[env.MetricMap]
        IN  \A n \in DOMAIN table :
                /\ table[n].Priority \in 1..999
                /\ table[n].parsed = 0 => table[n].Priority >= 100

\* a single file was loaded and its definition without a priority is in the
\* table with priority 0
C20_SingleFileLeavesZero ==
    /\ call.op = "InitConfig" /\ ret.done /\ ~ret.err
    /\ call.conf.kind = "file"
    /\ \E n \in DOMAIN env.heap[env.MetricMap] : env.heap[env.MetricMap][n].Priority = 0

\* a directory was loaded and every definition without a priority got the
\* rank of its file
C20_DirectoryRanks ==
    (call.op = "InitConfig" /\ ret.done /\ call.conf.kind = "dir") =>
        \A n \in DOMAIN env.heap[env.MetricMap] :
            env.heap[env.MetricMap][n].Priority \in 1..999

----------------------------------------------------------------------------
(* C21 *)

\* column i of the call's row is an eligible column holding NULL
NullColumn(i) ==
    /\ Eligible(call.q, call.names[i])
    /\ call.row[i] = VNil

\* the samples of the row that are named after column i
SamplesNamed(i) ==
    {k \in 1..Len(ret.out.metrics) : ret.out.metrics[k].desc.fqName[2] = call.names[i]}

\* column i has given one sample, of value NaN, and no error
OneNaNSample(i) ==
    /\ ~ret.out.cols[i].metric.Nil
    /\ ret.out.cols[i].metric.value = NaN
    /\ \E k \in SamplesNamed(i) : ret.out.metrics[k] = ret.out.cols[i].metric
    /\ Cardinality(SamplesNamed(i)) =
          Cardinality({j \in 1..Len(call.names) : call.names[j] = call.names[i]
                                                  /\ ~ret.out.cols[j].metric.Nil})
    /\ ErrorsOf(ret.out, i) = {}

\* C21 as claimed: a declared, eligible numeric column holding NULL yields
\* exactly one sample of value NaN for that column and no non-fatal error,
\* on every row of the data model.
C21_AsClaimed ==
    (RowDone /\ WellFormedRow) =>
        \A i \in 1..Len(call.names) : NullColumn(i) => OneNaNSample(i)

\* C21 amended: a declared, eligible numeric column holding NULL is coerced
\* to (NaN, true) and never gives a parse error; it yields exactly one sample
\* of value NaN and no error whenever every label value of the row is valid
\* UTF-8, and no sample and one recovered error when one is not.
C21_NullYieldsNaN ==
    RowDone =>
        \A i \in 1..Len(call.names) :
            NullColumn(i) =>
                /\ DbToFloat64(call.row[i]) = [f |-> NaN, ok |-> TRUE]
                /\ \A k \in ErrorsOf(ret.out, i) : ret.out.errs[k].kind # "parse"
                /\ IF \A l \in 1..Len(ret.out.labels) : ValidString(ret.out.labels[l])
                   THEN OneNaNSample(i)
                   ELSE /\ ret.out.cols[i].metric.Nil
                        /\ Cardinality(ErrorsOf(ret.out, i)) = 1
                        /\ \A k \in ErrorsOf(ret.out, i) : ret.out.errs[k].kind = "recovered"

\* a row whose only eligible column holds NULL has given one sample of value
\* NaN and no error
C21_Witness ==
    /\ RowDone /\ WellFormedRow
    /\ \E i \in 1..Len(call.names) : NullColumn(i) /\ OneNaNSample(i)
    /\ Len(ret.out.metrics) = 1
    /\ ret.out.metrics[1].value = NaN
    /\ ret.out.errs = <<>>

----------------------------------------------------------------------------
(* C22 *)

\* a statement of the scrape was executed without an error of QueryContext
SomeStatementExecuted ==
    \E k \in 1..Len(dblog) : dblog[k].outcome \notin {"error", "cancelled"}

\* the up gauge, of value 1, is among the samples Update has sent
UpSent ==
    \E i \in 1..Len(upd.ch) :
        /\ upd.ch[i].desc.fqName = <<"pg", "up">>
        /\ upd.ch[i].value = Norm(1, 0)

\* C22: pgCollector.Update sends the up gauge with value 1 only in a scrape
\* in which at least one enabled statement was executed successfully.
C22_AsClaimed == UpSent => SomeStatementExecuted

\* the Update of pg has sent up = 1 after the only statement it ran failed
\* in QueryContext
C22_UpAfterEveryStatementFailed ==
    /\ upd.name = "pg" /\ upd.pc = "returned"
    /\ UpSent
    /\ dblog # <<>>
    /\ \A k \in 1..Len(dblog) : dblog[k].outcome = "error"
    /\ metrics = <<>>

----------------------------------------------------------------------------
(* C23 *)

\* InitConfig has returned from loading a directory that could be listed
DirLoaded ==
    /\ call.op = "InitConfig" /\ ret.done
    /\ call.conf.kind = "dir" /\ call.conf.status # "unreadable"

\* entry i of the directory is taken (named *.yaml, or a directory) and
\* loads without an error
Loads(i) ==
    LET e == call.conf.entries[i]
    IN  (e.yaml \/ e.kind = "dir") /\ LoadConfig(e).err = ""

\* entry i loads and defines the name n
Defines(i, n) == Loads(i) /\ n \in DOMAIN LoadConfig(call.conf.entries[i]).queries

\* the last entry, in listing order, that defines n
LastDefining(n) ==
    CHOOSE i \in 1..Len(call.conf.entries) :
        Defines(i, n) /\ \A j \in 1..Len(call.conf.entries) : Defines(j, n) => j <= i

\* the rank of entry i: the number of entries up to it that load
RankOf(i) == Cardinality({j \in 1..i : Loads(j)})

\* the entries that load, in listing order
RECURSIVE OnlyLoading(_)
OnlyLoading(i) ==
    IF i = 0 THEN <<>>
    ELSE OnlyLoading(i - 1) \o (IF Loads(i) THEN <<call.conf.entries[i]>> ELSE <<>>)

\* C23: loading a directory returns no error; the table holds the names
\* defined by the entries that load, each with the definition of the last
\* entry, in listing order, that defines it, ranked by the number of entries
\* that loaded up to that one; the entries that do not load change nothing.
C23_DirectoryMerge ==
    DirLoaded =>
        LET table == env.heap[env.MetricMap]
            es == call.conf.entries
        IN  /\ ~ret.err
            /\ DOMAIN table = {n \in {"pg", "pg_database"} : \E i \in 1..Len(es) : Defines(i, n)}
            /\ \A n \in DOMAIN table :
                  LET last == LastDefining(n)
                      single == LoadConfig(es[last]).queries[n]
                  IN  /\ table[n].parsed = single.parsed
                      /\ table[n].Priority =
                            IF single.Priority = 0 THEN 100 + RankOf(last)
                            ELSE single.Priority
            /\ table = LoadConfig(Dir(OnlyLoading(Len(es)))).queries

\* a directory of two files that both define pg, the first with a priority
\* and the second without: the table holds the second file's definition
C23_Witness ==
    /\ DirLoaded
    /\ Len(call.conf.entries) = 2
    /\ Defines(1, "pg") /\ Defines(2, "pg")
    /\ call.conf.entries[1].queries["pg"] = 50
    /\ call.conf.entries[2].queries["pg"] = 0
    /\ env.heap[env.MetricMap]["pg"] = [Priority |-> 102, parsed |-> 0]

\* a directory whose first file is malformed: it is skipped, the second
\* file's definition gets rank 1 and no error is returned
C23_SkippedFile ==
    /\ DirLoaded /\ ~ret.err
    /\ Len(call.conf.entries) = 2
    /\ call.conf.entries[1].status = "malformed"
    /\ Loads(2)
    /\ env.heap[env.MetricMap]["pg"].Priority = 101

----------------------------------------------------------------------------
(* C24 *)

\* C24: getMetric never panics in procRows: for every collected row, every
\* index used to read it is within the row, also when the statement variants
\* return different numbers of columns.
C24_AsClaimed ==
    /\ pc # "panic"
    /\ pc \in {"proc", "done"} =>
          \A n \in 1..Len(list) : ~procRows(qi, columnNames, columnIdx, list[n]).panic

\* getMetric has panicked on a row that is shorter than the column list of
\* the last statement
C24_IndexOutOfRange ==
    /\ pc = "panic"
    /\ Len(dblog) = 2
    /\ \E n \in 1..Len(list) :
          /\ Len(list[n]) < Len(columnNames)
          /\ procRows(qi, columnNames, columnIdx, list[n]).panic

----------------------------------------------------------------------------
(* C25 *)

\* the value label l of row n should have: decoded from the row's column of
\* the label's name, and nothing when the column list has no such column
LabelFromItsColumn(n, l) ==
    LET name == qi.LabelNames[l]
    IN  IF name \in Range(columnNames)
        THEN decode(qi, list[n][PositionOf(columnNames, name)], name,
                    DbNameOf(qi, columnNames, list[n])).s
        ELSE <<>>

\* C25: every label value of an emitted sample comes from the row's column
\* named as the declared label column; a label column that the canonical
\* column list lacks takes no value from another column.
C25_AsClaimed ==
    pc = "done" =>
        \A n \in 1..Len(list) :
            (Len(list[n]) = Len(columnNames) /\ RowOut(n).metrics # <<>>) =>
                \A l \in 1..Len(qi.LabelNames) :
                    RowOut(n).labels[l] = LabelFromItsColumn(n, l)

\* the result set has the column numbackends only; the sample of its row
\* carries, as the label datname, the text of the value of numbackends
C25_LabelFromAnotherColumn ==
    /\ pc = "done"
    /\ qi.LabelNames = <<"datname">>
    /\ columnNames = <<"numbackends">>
    /\ list = <<<<VInt(3)>>>>
    /\ Len(metrics) = 1
    /\ metrics[1].desc.fqName[2] = "numbackends"
    /\ metrics[1].labels = <<<<51>>>>

----------------------------------------------------------------------------
(* C26 *)

\* C26: when getMetric has returned (or has been left by a panic), no result
\* set it opened is still open.
C26_AsClaimed ==
    pc \in {"done", "panic"} => \A k \in 1..Len(dblog) : ~ResultSetOpen(k)

\* getMetric has returned after a rows.Scan failed on the second row of a
\* result set: the row loop was left by break and the result set was not
\* closed
C26_LeftOpenAfterScanError ==
    /\ pc = "done"
    /\ \E k \in 1..Len(dblog) :
          /\ dblog[k].outcome = "scanerror" /\ ResultSetOpen(k)
          /\ Len(dblog[k].scanned) = 1

----------------------------------------------------------------------------
(* C27 *)

\* the rows the executed statements gave, those of a statement whose scan
\* failed left out
RowsWithoutFailed ==
    Flatten([k \in 1..Len(dblog) |->
                IF dblog[k].outcome = "scanerror" THEN <<>> ELSE dblog[k].scanned])

\* the number of rows the executed statements before the k-th gave
RowsBefore(k) == Len(ScannedRows(dblog, k - 1))

\* C27 as claimed: a statement on which scanning a row fails contributes
\* none of its rows to the rows getMetric processes.
C27_AsClaimed ==
    pc \in {"proc", "done", "panic"} => list = RowsWithoutFailed

\* C27 amended: when scanning a row of a statement fails, the rows of that
\* statement scanned before the failure stay among the rows getMetric
\* processes, in their place between the rows of the statements before and
\* after it; no further row of that statement is read, every other enabled
\* statement is executed, and when getMetric returns every row has been
\* processed into its samples.
C27_ScanFailureKeepsEarlierRows ==
    pc \in {"proc", "done", "panic"} =>
        /\ Len(list) = RowsBefore(Len(dblog) + 1)
        /\ \A k \in 1..Len(dblog) :
              \A j \in 1..Len(dblog[k].scanned) :
                  list[RowsBefore(k) + j] = dblog[k].scanned[j]
        /\ \A i \in EnabledStatements :
              Cardinality({k \in 1..Len(dblog) : dblog[k].stmt = i}) = 1
        /\ pc = "done" => EveryRowProcessed

\* the first statement gave one row before its scan failed, the second gave
\* one row: both rows were processed
C27_Witness ==
    /\ pc = "done"
    /\ Len(dblog) = 2
    /\ dblog[1].outcome = "scanerror" /\ Len(dblog[1].scanned) = 1
    /\ dblog[2].outcome = "rows" /\ Len(dblog[2].scanned) = 1
    /\ list = <<dblog[1].scanned[1], dblog[2].scanned[1]>>
    /\ Len(metrics) = 2

----------------------------------------------------------------------------
(* C28 *)

\* InitConfig has returned an error
InitConfigFailed == call.op = "InitConfig" /\ ret.done /\ ret.err

\* C28: after InitConfig returned an error, MetricMap refers to the table it
\* referred to before the call, with its definitions.
C28_AsClaimed ==
    InitConfigFailed =>
        /\ env.MetricMap = 1
        /\ env.heap[env.MetricMap] = env.heap[1]

\* InitConfig was called with a path that does not exist while MetricMap
\* held the definition pg: it returned the error and MetricMap now refers to
\* the nil map LoadConfig returned
C28_TableLostAfterFailure ==
    /\ InitConfigFailed
    /\ call.conf = NoPath
    /\ "pg" \in DOMAIN env.heap[1]
    /\ env.MetricMap = 2
    /\ env.heap[env.MetricMap] = EmptyTable

----------------------------------------------------------------------------
(* C29 *)

\* the Status denotes a disabled statement, in either letter case
DenotesDisabled(status) == status \in {"disable", "Disable"}

\* the statement variants getMetric has executed
ExecutedStatements == {dblog[k].stmt : k \in 1..Len(dblog)}

\* C29 as claimed: a statement whose Status denotes a disabled statement, in
\* any letter case, is never executed, and a statement whose Status is not
\* the exact string "disable" is never skipped.
C29_AsClaimed ==
    /\ \A i \in ExecutedStatements : ~DenotesDisabled(qi.Queries[i].Status)
    /\ pc \in {"proc", "done", "panic"} =>
          \A i \in 1..Len(qi.Queries) :
              qi.Queries[i].Status # "disable" => i \in ExecutedStatements

\* C29 amended: a statement variant is skipped if and only if its Status is
\* the exact string "disable"; every other Status, the enabled one, the
\* empty one and "Disable" in another letter case included, is executed.
C29_SkippedIffExactlyDisable ==
    /\ \A i \in ExecutedStatements : qi.Queries[i].Status # "disable"
    /\ pc \in {"proc", "done", "panic"} =>
          \A i \in 1..Len(qi.Queries) :
              /\ qi.Queries[i].Status # "disable" => i \in ExecutedStatements
              /\ qi.Queries[i].Status = "disable" => i \notin ExecutedStatements

\* a statement whose Status is "Disable" was executed and its row became a
\* sample
C29_Witness ==
    /\ pc = "done"
    /\ Len(qi.Queries) = 1
    /\ qi.Queries[1].Status = "Disable"
    /\ ExecutedStatements = {1}
    /\ dblog[1].outcome = "rows"
    /\ Len(metrics) >= 1

----------------------------------------------------------------------------
(* C30 *)

\* the SIGHUPs waiting in sigChan before any other signal
RECURSIVE LeadingHups(_)
LeadingHups(c) ==
    IF c = <<>> \/ Head(c) # "SIGHUP" THEN 0 ELSE 1 + LeadingHups(Tail(c))

\* every SIGHUP received before the first SIGTERM or SIGINT has had its
\* Reload, is having it, or waits in sigChan for the signal goroutine
EveryHupReloads ==
    procs.hups = procs.reloads
                 + (IF procs.sigpc \in {"lock", "reload"} THEN 1 ELSE 0)
                 + (IF procs.sigpc \in {"send", "exited"} THEN 0
                    ELSE LeadingHups(procs.sigChan))

\* the server goes on serving while no SIGTERM or SIGINT was received
KeepsServing == ~procs.terminated => procs.srv = "serving"

\* at most one goroutine is inside Reload
ReloadsNeverOverlap == ~(procs.sigpc = "reload" /\ procs.httppc = "reload")

\* C30: for any sequence of received signals, each SIGHUP triggers a Reload
\* and the server keeps serving; the first SIGTERM or SIGINT eventually leads
\* to the server being shut down and main returning; Reload executions never
\* overlap.
C30_AsClaimed ==
    /\ [](EveryHupReloads /\ KeepsServing /\ ReloadsNeverOverlap)
    /\ (procs.terminated ~> procs.mainpc = "returned")

\* a third signal arrived while two waited in sigChan and was dropped
C30_SignalDropped ==
    /\ procs.dropped # <<>>
    /\ Len(procs.sigChan) = SigChanCap
    /\ procs.received = 3

\* Reload executions never overlap, and the server is serving until a
\* SIGTERM or SIGINT is received
C30_ReloadsSerialised == ReloadsNeverOverlap /\ KeepsServing

====
